---------------------------- MODULE Spec2Model ----------------------------
(***************************************************************************)
(* A model of typedoc-plugin-lib-utils (src/src/index.ts):                 *)
(*   - the gzip/base64 JSON codec (readGzipJson, writeGzipJson);           *)
(*   - the per-application callback registries (alterSearch, formatSearch, *)
(*     alterNavigation, formatNavigation);                                 *)
(*   - the post-render search and navigation jobs and the legacy           *)
(*     rebuildSearch.                                                      *)
(*   - the manifest lookup (getPackageFile).                               *)
(* Strings are sequences of one-character strings, buffers are sequences   *)
(* of bytes (0..255).                                                      *)
(***************************************************************************)
EXTENDS Integers, Sequences, FiniteSets, TLC

VARIABLES
  codecPc,      \* codec scenario: "start", "written", "read"
  codecValue,   \* the value handed to writeGzipJson
  codecVar,     \* the jsVariable given to writeGzipJson (<<>>: none given)
  codecReadVar, \* the jsVariable given to readGzipJson (<<>>: none given)
  codecFile,    \* the content of the file
  codecResult   \* what readGzipJson returned or threw

codecVars ==
  <<codecPc, codecValue, codecVar, codecReadVar, codecFile, codecResult>>

VARIABLES
  fillPc,       \* fill scenario: "start", "once", "twice"
  fillLegacy,   \* TRUE: the fill step of rebuildSearch; FALSE: the job's
  fillRow,      \* the row before the fill step
  fillOnce,     \* the row after one fill step
  fillTwice     \* the row after two fill steps

fillVars == <<fillPc, fillLegacy, fillRow, fillOnce, fillTwice>>

VARIABLES
  options,                \* app.options: searchInComments, searchInDocuments
  searchTasksStore,       \* the WeakMap: a function on the apps it holds
  navigationTasksStore,   \* likewise
  postRenderAsyncJobs,    \* app.renderer.postRenderAsyncJobs, for each app
  registered              \* history: the callbacks registered, per app

registryVars ==
  <<searchTasksStore, navigationTasksStore, postRenderAsyncJobs, registered>>

VARIABLES
  scenario,     \* what this run follows: "search", "navigation", "legacy"
  disk,         \* assets/search.js and assets/navigation.js
  job,          \* the job that runs, and its app
  pc,           \* where the job (or rebuildSearch) is
  search,       \* the search object in memory: rows and index
  navItems,     \* the navigation items in memory
  rowPos,       \* the row loop's position (1-based: id + 1)
  cbPos,        \* a callback loop's position (1-based)
  reflectionIndex, \* the index of the row's reflection (0: none)
  builder,      \* the documents added to the lunr builder, in order
  awaiting,     \* the job is suspended at an awaited callback
  inProgress,   \* the callback invocations that have not returned
  navPath,      \* the navigation node visited: its indexes from the top
  dummyItem,    \* the copy of the node the format callbacks are given
  legacyOptions,\* the format options given to rebuildSearch
  log           \* history: what the run did, in order

VARIABLES
  packagePc,     \* manifest lookup: "start", "done" ("idle": not in use)
  packageDirs,   \* the directories from the filesystem root (the first) down
                 \* to the common directory (the last): each its entries
  packageResult  \* what getPackageFile returned: <<>> is null

packageVars == <<packagePc, packageDirs, packageResult>>

jobVars ==
  <<scenario, disk, job, pc, search, navItems, rowPos, cbPos,
    reflectionIndex, builder, awaiting, inProgress, navPath, dummyItem,
    legacyOptions, log>>

vars ==
  <<codecVars, fillVars, options, registryVars, jobVars, packageVars>>

(***************************************************************************)
(* Characters and bytes                                                    *)
(***************************************************************************)

\* The printable ASCII characters, code 32 first (code 96, the grave accent,
\* is spelled out: it cannot be written in a string).
PrintableAscii ==
  <<" ", "!", "\"", "#", "$", "%", "&", "'", "(", ")", "*", "+", ",", "-",
    ".", "/", "0", "1", "2", "3", "4", "5", "6", "7", "8", "9", ":", ";",
    "<", "=", ">", "?", "@", "A", "B", "C", "D", "E", "F", "G", "H", "I",
    "J", "K", "L", "M", "N", "O", "P", "Q", "R", "S", "T", "U", "V", "W",
    "X", "Y", "Z", "[", "\\", "]", "^", "_", "grave", "a", "b", "c", "d", "e",
    "f", "g", "h", "i", "j", "k", "l", "m", "n", "o", "p", "q", "r", "s",
    "t", "u", "v", "w", "x", "y", "z", "{", "|", "}", "~">>

Base64Alphabet ==
  <<"A", "B", "C", "D", "E", "F", "G", "H", "I", "J", "K", "L", "M", "N",
    "O", "P", "Q", "R", "S", "T", "U", "V", "W", "X", "Y", "Z", "a", "b",
    "c", "d", "e", "f", "g", "h", "i", "j", "k", "l", "m", "n", "o", "p",
    "q", "r", "s", "t", "u", "v", "w", "x", "y", "z", "0", "1", "2", "3",
    "4", "5", "6", "7", "8", "9", "+", "/">>

IndexOf(seq, c) ==
  IF \E i \in 1..Len(seq) : seq[i] = c
    THEN CHOOSE i \in 1..Len(seq) : seq[i] = c
    ELSE 0

\* The UTF-8 byte of an ASCII character.
Ord(c) == IndexOf(PrintableAscii, c) + 31

\* The character of a byte; a byte outside printable ASCII decodes to a
\* character that no JSON text starts or continues with.
Chr(b) == IF b >= 32 /\ b <= 126 THEN PrintableAscii[b - 31] ELSE "~"

\* Buffer.from(string): the string's UTF-8 bytes.
BufferFromString(s) == [i \in 1..Len(s) |-> Ord(s[i])]

\* buffer.toString(): the bytes read as UTF-8.
BufferToString(b) == [i \in 1..Len(b) |-> Chr(b[i])]

RECURSIVE Concat(_)
Concat(seqs) ==
  IF seqs = <<>> THEN <<>> ELSE Head(seqs) \o Concat(Tail(seqs))

StartsWith(s, prefix) ==
  /\ Len(s) >= Len(prefix)
  /\ SubSeq(s, 1, Len(prefix)) = prefix

(***************************************************************************)
(* JSON values, JSON.stringify and JSON.parse                              *)
(***************************************************************************)

JNull == [t |-> "null"]
JBool(b) == [t |-> "bool", v |-> b]
JNum(n) == [t |-> "num", v |-> n]
\* A number that is not finite (NaN, Infinity): a JSONValue by its type,
\* with no JSON representation.
JNonFinite == [t |-> "nonfinite"]
JStr(s) == [t |-> "str", v |-> s]
JArr(items) == [t |-> "arr", v |-> items]
\* members: a sequence of [k |-> key string, v |-> value]
JObj(members) == [t |-> "obj", v |-> members]

RECURSIVE IsJsonRepresentable(_)
IsJsonRepresentable(v) ==
  CASE v.t = "nonfinite" -> FALSE
    [] v.t = "arr" -> \A i \in 1..Len(v.v) : IsJsonRepresentable(v.v[i])
    [] v.t = "obj" -> \A i \in 1..Len(v.v) : IsJsonRepresentable(v.v[i].v)
    [] OTHER -> TRUE

RECURSIVE NatToChars(_)
NatToChars(n) ==
  IF n < 10
    THEN <<Chr(48 + n)>>
    ELSE NatToChars(n \div 10) \o <<Chr(48 + (n % 10))>>

IntToChars(n) == IF n < 0 THEN <<"-">> \o NatToChars(-n) ELSE NatToChars(n)

RECURSIVE QuoteChars(_)
QuoteChars(s) ==
  IF s = <<>> THEN <<>>
  ELSE (IF Head(s) \in {"\"", "\\"} THEN <<"\\", Head(s)>> ELSE <<Head(s)>>)
       \o QuoteChars(Tail(s))

QuoteString(s) == <<"\"">> \o QuoteChars(s) \o <<"\"">>

RECURSIVE JsonStringify(_)
RECURSIVE StringifyItems(_)
RECURSIVE StringifyMembers(_)
StringifyItems(items) ==
  IF items = <<>> THEN <<>>
  ELSE JsonStringify(Head(items))
       \o (IF Len(items) > 1 THEN <<",">> ELSE <<>>)
       \o StringifyItems(Tail(items))

StringifyMembers(members) ==
  IF members = <<>> THEN <<>>
  ELSE QuoteString(Head(members).k) \o <<":">>
       \o JsonStringify(Head(members).v)
       \o (IF Len(members) > 1 THEN <<",">> ELSE <<>>)
       \o StringifyMembers(Tail(members))

JsonStringify(v) ==
  CASE v.t = "null" -> <<"n", "u", "l", "l">>
    [] v.t = "nonfinite" -> <<"n", "u", "l", "l">>
    [] v.t = "bool" ->
         IF v.v THEN <<"t", "r", "u", "e">> ELSE <<"f", "a", "l", "s", "e">>
    [] v.t = "num" -> IntToChars(v.v)
    [] v.t = "str" -> QuoteString(v.v)
    [] v.t = "arr" -> <<"[">> \o StringifyItems(v.v) \o <<"]">>
    [] v.t = "obj" -> <<"{">> \o StringifyMembers(v.v) \o <<"}">>

\* A parse step's result: ok, the value, the position after it.
ParseFail == [ok |-> FALSE, val |-> JNull, next |-> 0]
ParseOk(v, n) == [ok |-> TRUE, val |-> v, next |-> n]

At(s, i) == IF i >= 1 /\ i <= Len(s) THEN s[i] ELSE ""

Digits == {"0", "1", "2", "3", "4", "5", "6", "7", "8", "9"}

RECURSIVE ParseDigits(_, _, _)
ParseDigits(s, i, acc) ==
  IF At(s, i) \in Digits
    THEN ParseDigits(s, i + 1, acc * 10 + (Ord(s[i]) - 48))
    ELSE ParseOk(acc, i)

ParseNumber(s, i) ==
  LET neg == At(s, i) = "-"
      from == IF neg THEN i + 1 ELSE i
      d == ParseDigits(s, from, 0)
  IN IF At(s, from) \notin Digits THEN ParseFail
     \* no leading zeros
     ELSE IF s[from] = "0" /\ d.next > from + 1 THEN ParseFail
     ELSE ParseOk(JNum(IF neg THEN -d.val ELSE d.val), d.next)

\* The characters of a string literal whose opening quote is before i.
RECURSIVE ParseStringBody(_, _, _)
ParseStringBody(s, i, acc) ==
  CASE At(s, i) = "" -> ParseFail
    [] At(s, i) = "\"" -> ParseOk(acc, i + 1)
    [] At(s, i) = "\\" ->
         IF At(s, i + 1) \in {"\"", "\\"}
           THEN ParseStringBody(s, i + 2, Append(acc, s[i + 1]))
           ELSE ParseFail
    [] OTHER -> ParseStringBody(s, i + 1, Append(acc, s[i]))

ParseLiteral(s, i, word, v) ==
  IF i + Len(word) - 1 <= Len(s) /\ SubSeq(s, i, i + Len(word) - 1) = word
    THEN ParseOk(v, i + Len(word))
    ELSE ParseFail

RECURSIVE ParseValue(_, _)
RECURSIVE ParseItems(_, _, _)
RECURSIVE ParseMembers(_, _, _)
\* The items of an array after "[" or ",": i is at an item.
ParseItems(s, i, acc) ==
  LET item == ParseValue(s, i)
  IN IF ~item.ok THEN ParseFail
     ELSE CASE At(s, item.next) = "," ->
                 ParseItems(s, item.next + 1, Append(acc, item.val))
            [] At(s, item.next) = "]" ->
                 ParseOk(JArr(Append(acc, item.val)), item.next + 1)
            [] OTHER -> ParseFail

ParseMembers(s, i, acc) ==
  IF At(s, i) # "\"" THEN ParseFail
  ELSE LET key == ParseStringBody(s, i + 1, <<>>)
       IN IF ~key.ok \/ At(s, key.next) # ":" THEN ParseFail
          ELSE LET val == ParseValue(s, key.next + 1)
                   member == [k |-> key.val, v |-> val.val]
               IN IF ~val.ok THEN ParseFail
                  ELSE CASE At(s, val.next) = "," ->
                              ParseMembers(s, val.next + 1, Append(acc, member))
                         [] At(s, val.next) = "}" ->
                              ParseOk(JObj(Append(acc, member)), val.next + 1)
                         [] OTHER -> ParseFail

ParseValue(s, i) ==
  CASE At(s, i) = "n" -> ParseLiteral(s, i, <<"n", "u", "l", "l">>, JNull)
    [] At(s, i) = "t" ->
         ParseLiteral(s, i, <<"t", "r", "u", "e">>, JBool(TRUE))
    [] At(s, i) = "f" ->
         ParseLiteral(s, i, <<"f", "a", "l", "s", "e">>, JBool(FALSE))
    [] At(s, i) = "\"" ->
         LET body == ParseStringBody(s, i + 1, <<>>)
         IN IF body.ok THEN ParseOk(JStr(body.val), body.next) ELSE ParseFail
    [] At(s, i) = "[" ->
         IF At(s, i + 1) = "]" THEN ParseOk(JArr(<<>>), i + 2)
         ELSE ParseItems(s, i + 1, <<>>)
    [] At(s, i) = "{" ->
         IF At(s, i + 1) = "}" THEN ParseOk(JObj(<<>>), i + 2)
         ELSE ParseMembers(s, i + 1, <<>>)
    [] At(s, i) = "-" \/ At(s, i) \in Digits -> ParseNumber(s, i)
    [] OTHER -> ParseFail

Thrown(error) == [ok |-> FALSE, error |-> error]
Returned(v) == [ok |-> TRUE, value |-> v]

\* JSON.parse(text): the value, or a SyntaxError.
JsonParse(s) ==
  LET r == ParseValue(s, 1)
  IN IF r.ok /\ r.next = Len(s) + 1
       THEN Returned(r.val)
       ELSE Thrown("SyntaxError")

(***************************************************************************)
(* gzip and base64 (node:zlib, Buffer)                                     *)
(***************************************************************************)

\* gzip(buffer): the two magic bytes of a gzip member, the data (stored),
\* the size of the data modulo 256 as the trailer.
Gzip(b) == <<31, 139>> \o b \o <<Len(b) % 256>>

\* gunzip(buffer): the data of a well-formed member, or an error (incorrect
\* header check, unexpected end of file).
Gunzip(b) ==
  IF /\ Len(b) >= 3
     /\ b[1] = 31
     /\ b[2] = 139
     /\ b[Len(b)] = (Len(b) - 3) % 256
    THEN Returned(SubSeq(b, 3, Len(b) - 1))
    ELSE Thrown("ZlibError")

Base64Char(n) == Base64Alphabet[n + 1]

\* buffer.toString('base64'): three bytes make four characters; a last group
\* of one or two bytes is padded with "=".
RECURSIVE Base64Encode(_)
Base64Encode(b) ==
  CASE Len(b) = 0 -> <<>>
    [] Len(b) = 1 ->
         <<Base64Char(b[1] \div 4), Base64Char((b[1] % 4) * 16), "=", "=">>
    [] Len(b) = 2 ->
         <<Base64Char(b[1] \div 4),
           Base64Char((b[1] % 4) * 16 + b[2] \div 16),
           Base64Char((b[2] % 16) * 4), "=">>
    [] OTHER ->
         <<Base64Char(b[1] \div 4),
           Base64Char((b[1] % 4) * 16 + b[2] \div 16),
           Base64Char((b[2] % 16) * 4 + b[3] \div 64),
           Base64Char(b[3] % 64)>>
         \o Base64Encode(SubSeq(b, 4, Len(b)))

\* The 6-bit value of a base64 character, -1 for a character outside the
\* alphabet ("-" and "_", the URL-safe alphabet, are accepted).
Unbase64(c) ==
  CASE c = "-" -> 62
    [] c = "_" -> 63
    [] OTHER -> IndexOf(Base64Alphabet, c) - 1

\* The 6-bit values Buffer.from(content, 'base64') decodes: a character
\* outside the alphabet is skipped, the first "=" ends the input.
RECURSIVE Sextets(_)
Sextets(s) ==
  CASE s = <<>> -> <<>>
    [] Head(s) = "=" -> <<>>
    [] Unbase64(Head(s)) < 0 -> Sextets(Tail(s))
    [] OTHER -> <<Unbase64(Head(s))>> \o Sextets(Tail(s))

RECURSIVE SextetsToBytes(_)
SextetsToBytes(x) ==
  CASE Len(x) <= 1 -> <<>>
    [] Len(x) = 2 -> <<x[1] * 4 + x[2] \div 16>>
    [] Len(x) = 3 ->
         <<x[1] * 4 + x[2] \div 16, (x[2] % 16) * 16 + x[3] \div 4>>
    [] OTHER ->
         <<x[1] * 4 + x[2] \div 16,
           (x[2] % 16) * 16 + x[3] \div 4,
           (x[3] % 4) * 64 + x[4]>>
         \o SextetsToBytes(SubSeq(x, 5, Len(x)))

\* Buffer.from(content, 'base64')
Base64Decode(s) == SextetsToBytes(Sextets(s))

(***************************************************************************)
(* readGzipJson, writeGzipJson                                             *)
(***************************************************************************)

\* "data:application/octet-stream;base64,"
DataUriPrefix ==
  <<"d", "a", "t", "a", ":", "a", "p", "p", "l", "i", "c", "a", "t", "i",
    "o", "n", "/", "o", "c", "t", "e", "t", "-", "s", "t", "r", "e", "a",
    "m", ";", "b", "a", "s", "e", "6", "4", ",">>

\* The characters of the class [.*+?^${}()|[\]\\]
RegExpMetaChars ==
  {".", "*", "+", "?", "^", "$", "{", "}", "(", ")", "|", "[", "]", "\\"}

\* A variable name that escapes nothing (used to show what the escape is for).
EscapeRegExpNothing(name) == name

\* jsVariable.replace(/[.*+?^${}()|[\]\\]/g, '\\$&')
RECURSIVE EscapeRegExp(_)
EscapeRegExp(name) ==
  IF name = <<>> THEN <<>>
  ELSE (IF Head(name) \in RegExpMetaChars
          THEN <<"\\", Head(name)>>
          ELSE <<Head(name)>>)
       \o EscapeRegExp(Tail(name))

\* Where a match of the pattern characters p (literals, "\c", "." and "$")
\* that starts at position i of s ends (the position after it); 0: no match.
RECURSIVE MatchChars(_, _, _)
MatchChars(p, s, i) ==
  CASE p = <<>> -> i
    [] Head(p) = "\\" /\ Len(p) >= 2 ->
         IF At(s, i) = p[2] THEN MatchChars(SubSeq(p, 3, Len(p)), s, i + 1)
         ELSE 0
    [] Head(p) = "." ->
         IF i <= Len(s) THEN MatchChars(Tail(p), s, i + 1) ELSE 0
    [] Head(p) = "$" ->
         IF i = Len(s) + 1 THEN MatchChars(Tail(p), s, i) ELSE 0
    [] OTHER ->
         IF At(s, i) = Head(p) THEN MatchChars(Tail(p), s, i + 1) ELSE 0

\* The end of the longest run of characters other than '"' from i on.
RECURSIVE SkipNonQuotes(_, _)
SkipNonQuotes(s, i) ==
  IF i <= Len(s) /\ s[i] # "\"" THEN SkipNonQuotes(s, i + 1) ELSE i

\* The payload when the whole content matches, the empty string otherwise.
StripAssignmentOrNothing(content, escaped) ==
  LET afterVar == MatchChars(escaped \o <<" ", "=", " ", "\"">>, content, 1)
      afterPayload == SkipNonQuotes(content, afterVar)
      afterQuote == afterPayload + 1
      matches ==
        /\ afterVar # 0
        /\ At(content, afterPayload) = "\""
        /\ \/ afterQuote = Len(content) + 1
           \/ /\ At(content, afterQuote) = ";"
              /\ afterQuote = Len(content)
  IN IF matches THEN SubSeq(content, afterVar, afterPayload - 1) ELSE <<>>

\* content.replace(new RegExp(`^${escaped} = "([^"]*)";?$`), '$1'):
\* the payload when the whole content matches, the content as it is
\* otherwise.
StripAssignment(content, escaped) ==
  LET afterVar == MatchChars(escaped \o <<" ", "=", " ", "\"">>, content, 1)
      afterPayload == SkipNonQuotes(content, afterVar)
      afterQuote == afterPayload + 1
      matches ==
        /\ afterVar # 0
        /\ At(content, afterPayload) = "\""
        /\ \/ afterQuote = Len(content) + 1
           \/ /\ At(content, afterQuote) = ";"
              /\ afterQuote = Len(content)
  IN IF matches THEN SubSeq(content, afterVar, afterPayload - 1) ELSE content

\* content.replace(/^data:application\/octet-stream;base64,/, '')
StripDataUri(content) ==
  IF StartsWith(content, DataUriPrefix)
    THEN SubSeq(content, Len(DataUriPrefix) + 1, Len(content))
    ELSE content

\* readGzipJson(file, jsVariable) on a file of the given content: the value
\* returned or the error thrown.  jsVariable = <<>>: not given (or empty).
ReadGzipJson(content, jsVariable) ==
  LET stripped ==
        IF jsVariable # <<>>
          THEN StripAssignment(content, EscapeRegExp(jsVariable))
          ELSE content
      payload == StripDataUri(stripped)
      inflated == Gunzip(Base64Decode(payload))
  IN IF inflated.ok
       THEN JsonParse(BufferToString(inflated.value))
       ELSE inflated

\* writeGzipJson(file, value, jsVariable): the content written to the file.
WriteGzipJson(value, jsVariable) ==
  LET buffer == Gzip(BufferFromString(JsonStringify(value)))
      content == DataUriPrefix \o Base64Encode(buffer)
  IN IF jsVariable # <<>>
       THEN jsVariable \o <<" ", "=", " ", "\"">> \o content \o <<"\"", ";">>
       ELSE content

(***************************************************************************)
(* The codec scenario: a value is written with writeGzipJson and the file  *)
(* is read back with readGzipJson, under the same variable name or under   *)
(* another.                                                                *)
(***************************************************************************)

MaxArrayLen == 2

\* 'window.searchData' (readSearch, writeSearch and the search job)
SearchDataVar ==
  <<"w", "i", "n", "d", "o", "w", ".", "s", "e", "a", "r", "c", "h", "D",
    "a", "t", "a">>

\* 'window.navigationData'
NavigationDataVar ==
  <<"w", "i", "n", "d", "o", "w", ".", "n", "a", "v", "i", "g", "a", "t",
    "i", "o", "n", "D", "a", "t", "a">>

\* The variable names tried: none, the two the program uses, identifiers
\* with "$" and "_".
JsVariables ==
  {<<>>, SearchDataVar, NavigationDataVar, <<"$", "d", "_", "1">>,
   <<"j", "Q", "$">>}

JsonLeaves ==
  {JNull, JBool(TRUE), JNum(0), JNum(-12), JStr(<<"a">>),
   JStr(<<"\"", "\\">>)}

JsonScalars ==
  JsonLeaves \cup {JBool(FALSE), JNum(7), JNum(105), JStr(<<>>), JNonFinite}

JsonArrays ==
  {JArr(items) : items \in UNION {[1..n -> JsonLeaves] : n \in 0..MaxArrayLen}}

\* {"rows":[],"index":{}}
EmptySearch ==
  JObj(<<[k |-> <<"r", "o", "w", "s">>, v |-> JArr(<<>>)],
         [k |-> <<"i", "n", "d", "e", "x">>, v |-> JObj(<<>>)]>>)

JsonObjects ==
  {JObj(<<>>), EmptySearch}
  \cup {JObj(<<[k |-> <<"u", "r", "l">>, v |-> x]>>) :
          x \in JsonScalars \cup JsonArrays}
  \cup {JObj(<<[k |-> <<"a", "\"">>, v |-> x], [k |-> <<>>, v |-> y]>>) :
          x \in JsonLeaves, y \in {JNonFinite, JNum(7), JObj(<<>>)}}

JsonValues ==
  JsonScalars \cup JsonArrays \cup JsonObjects
  \cup {JArr(<<x, y>>) : x \in {JArr(<<>>), EmptySearch, JNonFinite},
                         y \in JsonObjects}

CodecInit ==
  /\ codecPc = "start"
  /\ codecValue \in JsonValues
  /\ codecVar \in JsVariables
  /\ codecReadVar = <<>>
  /\ codecFile = <<>>
  /\ codecResult = Thrown("none")

CodecWrite ==
  /\ codecPc = "start"
  /\ codecFile' = WriteGzipJson(codecValue, codecVar)
  /\ codecPc' = "written"
  /\ UNCHANGED <<codecValue, codecVar, codecReadVar, codecResult>>
  /\ UNCHANGED <<fillVars, options, registryVars, jobVars,
               packageVars>>

CodecRead ==
  /\ codecPc = "written"
  /\ \E jsVariable \in JsVariables :
       /\ codecReadVar' = jsVariable
       /\ codecResult' = ReadGzipJson(codecFile, jsVariable)
  /\ codecPc' = "read"
  /\ UNCHANGED <<codecValue, codecVar, codecFile>>
  /\ UNCHANGED <<fillVars, options, registryVars, jobVars,
               packageVars>>

CodecNext == CodecWrite \/ CodecRead

\* C1: reading back, under the same variable name (or with none), the file
\* that writeGzipJson wrote for a JSON-representable value returns a value
\* deeply equal to the one written.
RoundTrip ==
  (codecPc = "read" /\ codecReadVar = codecVar
     /\ IsJsonRepresentable(codecValue))
    => codecResult = Returned(codecValue)

\* Scenario 1: {"rows":[],"index":{}} under window.searchData came back.
RoundTripWitness ==
  /\ codecPc = "read"
  /\ codecVar = SearchDataVar
  /\ codecReadVar = SearchDataVar
  /\ codecValue = EmptySearch
  /\ codecResult = Returned(EmptySearch)

(***************************************************************************)
(* The host's documentation model (typedoc), as far as the library reads   *)
(* it.  An optional reference is a sequence of zero or one element.        *)
(***************************************************************************)

\* A comment: summary parts, and the content parts of each block tag.
CommentOf(summary, blockTags) == [summary |-> summary, blockTags |-> blockTags]

\* event.project.reflections, in Object.values order.
ProjectReflections ==
  << \* the project itself
     [cls |-> "Project", url |-> "index.html", name |-> "proj", kind |-> 1,
      isExternal |-> FALSE, parent |-> 0, comment |-> <<>>,
      signatures |-> <<>>, getSignature |-> <<>>, setSignature |-> <<>>,
      content |-> <<>>, relevanceBoost |-> <<>>, isDeprecated |-> TRUE,
      classes |-> "tsd-kind-project"],
     \* an external declaration with the url of the next one
     [cls |-> "Declaration", url |-> "a.html", name |-> "Ext", kind |-> 32,
      isExternal |-> TRUE, parent |-> 1,
      comment |-> <<CommentOf(<<"ext">>, <<>>)>>,
      signatures |-> <<>>, getSignature |-> <<>>, setSignature |-> <<>>,
      content |-> <<>>, relevanceBoost |-> <<5>>, isDeprecated |-> FALSE,
      classes |-> "tsd-kind-variable tsd-is-external"],
     \* a function of the project: comment, two signatures (one commented)
     [cls |-> "Declaration", url |-> "a.html", name |-> "Foo", kind |-> 64,
      isExternal |-> FALSE, parent |-> 1,
      comment |-> <<CommentOf(<<"sum", "mary">>, << <<"tag">>, <<>> >>)>>,
      signatures |-> << [comment |-> <<>>],
                        [comment |-> <<CommentOf(<<"sig">>, <<>>)>>] >>,
      getSignature |-> <<>>, setSignature |-> <<>>,
      content |-> <<>>, relevanceBoost |-> <<>>, isDeprecated |-> FALSE,
      classes |-> "tsd-kind-function"],
     \* a document under Foo, relevance boost 0
     [cls |-> "Document", url |-> "b.html", name |-> "Guide",
      kind |-> 8388608, isExternal |-> FALSE, parent |-> 3,
      comment |-> <<>>,
      signatures |-> <<>>, getSignature |-> <<>>, setSignature |-> <<>>,
      content |-> <<"body", "text">>, relevanceBoost |-> <<0>>,
      isDeprecated |-> FALSE, classes |-> "tsd-kind-document"],
     \* an accessor under Foo, relevance boost -1, deprecated
     [cls |-> "Declaration", url |-> "c.html", name |-> "acc",
      kind |-> 262144, isExternal |-> FALSE, parent |-> 3,
      comment |-> <<>>,
      signatures |-> <<>>,
      getSignature |-> <<[comment |-> <<CommentOf(<<"get">>, <<>>)>>]>>,
      setSignature |-> <<[comment |-> <<CommentOf(<<>>, << <<"set">> >>)>>]>>,
      content |-> <<>>, relevanceBoost |-> <<-1>>, isDeprecated |-> TRUE,
      classes |-> "tsd-kind-accessor"],
     \* a class with a comment that has no parts, relevance boost 2
     [cls |-> "Declaration", url |-> "d.html", name |-> "Bar", kind |-> 128,
      isExternal |-> FALSE, parent |-> 1,
      comment |-> <<CommentOf(<<>>, <<>>)>>,
      signatures |-> <<>>, getSignature |-> <<>>, setSignature |-> <<>>,
      content |-> <<>>, relevanceBoost |-> <<2>>, isDeprecated |-> TRUE,
      classes |-> "tsd-kind-class"],
     \* a second declaration with the url of Foo
     [cls |-> "Declaration", url |-> "a.html", name |-> "Foo2", kind |-> 32,
      isExternal |-> FALSE, parent |-> 1, comment |-> <<>>,
      signatures |-> <<>>, getSignature |-> <<>>, setSignature |-> <<>>,
      content |-> <<>>, relevanceBoost |-> <<7>>, isDeprecated |-> FALSE,
      classes |-> "tsd-kind-variable"],
     \* a signature reflection (neither declaration nor document)
     [cls |-> "Signature", url |-> "s.html", name |-> "call", kind |-> 4096,
      isExternal |-> FALSE, parent |-> 3, comment |-> <<>>,
      signatures |-> <<>>, getSignature |-> <<>>, setSignature |-> <<>>,
      content |-> <<>>, relevanceBoost |-> <<>>, isDeprecated |-> TRUE,
      classes |-> "tsd-kind-call-signature"],
     \* a declaration without a url (it has no page)
     [cls |-> "Declaration", url |-> "", name |-> "hidden", kind |-> 1024,
      isExternal |-> FALSE, parent |-> 6, comment |-> <<>>,
      signatures |-> <<>>, getSignature |-> <<>>, setSignature |-> <<>>,
      content |-> <<>>, relevanceBoost |-> <<>>, isDeprecated |-> FALSE,
      classes |-> "tsd-kind-property"] >>

\* The reflections the search code keeps (the filter of rebuildSearch and of
\* the search job).
SearchReflections ==
  SelectSeq(ProjectReflections,
            LAMBDA r : /\ r.cls \in {"Declaration", "Document"}
                       /\ r.url # ""
                       /\ r.name # ""
                       /\ ~r.isExternal)

\* The reflections the navigation job keeps.
NavigationReflections ==
  SelectSeq(ProjectReflections,
            LAMBDA r : r.url # "" /\ r.name # "" /\ ~r.isExternal)

\* reflections.findIndex((reflection) => reflection.url === url), 1-based;
\* 0 stands for -1.
FindIndex(reflections, url) ==
  IF \E i \in 1..Len(reflections) : reflections[i].url = url
    THEN CHOOSE i \in 1..Len(reflections) :
           /\ reflections[i].url = url
           /\ \A k \in 1..(i - 1) : reflections[k].url # url
    ELSE 0

\* parent.getFullName(): the names from below the project down to r.
RECURSIVE GetFullName(_)
GetFullName(r) ==
  IF r.parent # 0 /\ ProjectReflections[r.parent].cls # "Project"
    THEN GetFullName(ProjectReflections[r.parent]) \o <<r.name>>
    ELSE <<r.name>>

\* parts.join('\n')
RECURSIVE Join(_)
Join(parts) ==
  CASE parts = <<>> -> <<>>
    [] Len(parts) = 1 -> parts
    [] OTHER -> <<Head(parts), "\n">> \o Join(Tail(parts))

(***************************************************************************)
(* Rows (SearchItem), navigation nodes: objects with optional fields are   *)
(* functions whose domain is the set of fields that are set.               *)
(***************************************************************************)

Has(obj, field) == field \in DOMAIN obj

SetField(obj, field, value) ==
  [f \in DOMAIN obj \cup {field} |-> IF f = field THEN value ELSE obj[f]]

\* delete obj.field
DeleteField(obj, field) == [f \in DOMAIN obj \ {field} |-> obj[f]]

\* obj.url as a string ("" for an unset one: both are falsy and match no
\* reflection)
UrlOf(obj, field) == IF Has(obj, field) THEN obj[field] ELSE ""

(***************************************************************************)
(* The per-row fill step (rebuildSearch and the search job)                *)
(***************************************************************************)

\* The comments the fill step collects for a reflection: its own, then, for
\* a declaration, its signatures', its getter's and its setter's.
RECURSIVE SignatureComments(_)
SignatureComments(signatures) ==
  IF signatures = <<>> THEN <<>>
  ELSE Head(signatures).comment \o SignatureComments(Tail(signatures))

CollectComments(reflection) ==
  reflection.comment
  \o (IF reflection.cls = "Declaration"
        THEN SignatureComments(reflection.signatures)
             \o SignatureComments(reflection.getSignature)
             \o SignatureComments(reflection.setSignature)
        ELSE <<>>)

\* comments.flatMap((comment) => [...comment.summary,
\*   ...comment.blockTags.flatMap((token) => token.content)])
RECURSIVE CommentParts(_)
CommentParts(comments) ==
  IF comments = <<>> THEN <<>>
  ELSE Head(comments).summary \o Concat(Head(comments).blockTags)
       \o CommentParts(Tail(comments))

FillKindAlways(item, reflection) == SetField(item, "kind", reflection.kind)

FillKind(item, reflection) ==
  IF ~Has(item, "kind") THEN SetField(item, "kind", reflection.kind) ELSE item

FillName(item, reflection) ==
  IF ~Has(item, "name") THEN SetField(item, "name", reflection.name) ELSE item

FillClasses(item, reflection) ==
  IF ~Has(item, "classes")
    THEN SetField(item, "classes", reflection.classes)
    ELSE item

FillParent(item, reflection) ==
  IF /\ ~Has(item, "parent")
     /\ reflection.parent # 0
     /\ ProjectReflections[reflection.parent].cls # "Project"
    THEN SetField(item, "parent",
                  GetFullName(ProjectReflections[reflection.parent]))
    ELSE item

\* A fill of the comment that does not look at the setting.
FillCommentAlways(item, reflection, searchInComments) ==
  IF /\ ~Has(item, "comment")
     /\ CollectComments(reflection) # <<>>
    THEN SetField(item, "comment",
                  Join(CommentParts(CollectComments(reflection))))
    ELSE item

FillComment(item, reflection, searchInComments) ==
  IF /\ ~Has(item, "comment")
     /\ searchInComments
     /\ CollectComments(reflection) # <<>>
    THEN SetField(item, "comment",
                  Join(CommentParts(CollectComments(reflection))))
    ELSE item

FillDocument(item, reflection, searchInDocuments) ==
  IF /\ ~Has(item, "document")
     /\ searchInDocuments
     /\ reflection.cls = "Document"
    THEN SetField(item, "document", Join(reflection.content))
    ELSE item

\* reflection.relevanceBoost ?? 1
RelevanceBoost(reflection) ==
  IF reflection.relevanceBoost = <<>> THEN 1 ELSE reflection.relevanceBoost[1]

\* A search job that makes a relevance boost of 0 or less 1.
FillBoostClamped(item, reflection) ==
  IF ~Has(item, "boost")
    THEN SetField(item, "boost",
                  IF RelevanceBoost(reflection) <= 0
                    THEN 1
                    ELSE RelevanceBoost(reflection))
    ELSE item

\* The search job: item.boost = reflection.relevanceBoost ?? 1
FillBoost(item, reflection) ==
  IF ~Has(item, "boost")
    THEN SetField(item, "boost", RelevanceBoost(reflection))
    ELSE item

\* A rebuildSearch that takes the relevance boost as it is.
LegacyFillBoostUnclamped(row, reflection) ==
  IF ~Has(row, "boost")
    THEN SetField(row, "boost", RelevanceBoost(reflection))
    ELSE row

\* rebuildSearch: as above, then a boost <= 0 becomes 1.
LegacyFillBoost(row, reflection) ==
  IF ~Has(row, "boost")
    THEN SetField(row, "boost",
                  IF RelevanceBoost(reflection) <= 0
                    THEN 1
                    ELSE RelevanceBoost(reflection))
    ELSE row

\* kind, name, classes, parent, comment and document, in the code's order.
FillFields(item, reflection, opts) ==
  FillDocument(
    FillComment(
      FillParent(
        FillClasses(FillName(FillKind(item, reflection), reflection),
                    reflection),
        reflection),
      reflection, opts.searchInComments),
    reflection, opts.searchInDocuments)

\* The body of "if (reflection) { ... }" in the search job.
FillItem(item, reflection, opts) ==
  FillBoost(FillFields(item, reflection, opts), reflection)

\* The body of "if (reflection) { ... }" in rebuildSearch.
LegacyFillRow(row, reflection, opts) ==
  LegacyFillBoost(FillFields(row, reflection, opts), reflection)

\* The fill step of one row: nothing happens when no reflection has its url.
FillStep(item, opts, legacy) ==
  LET found == FindIndex(SearchReflections, UrlOf(item, "url"))
  IN IF found = 0 THEN item
     ELSE IF legacy
       THEN LegacyFillRow(item, SearchReflections[found], opts)
       ELSE FillItem(item, SearchReflections[found], opts)

(***************************************************************************)
(* The fill scenario: the fill step applied twice to one row.              *)
(***************************************************************************)

RowUrls == {"a.html", "b.html", "c.html", "d.html", "z.html", ""}

\* The rows of S, and each with the field set to one of the values.
WithField(S, field, values) ==
  S \cup {SetField(r, field, v) : r \in S, v \in values}

\* Every row: a url, and any of the other fields set, to values a caller
\* may have given (none is what a reflection gives).
FillRows ==
  WithField(
    WithField(
      WithField(
        WithField(
          WithField(
            WithField(
              WithField({[url |-> url] : url \in RowUrls}, "kind", {2}),
              "name", {"Given"}),
            "classes", {"given"}),
          "parent", {<<"Up">>}),
        "comment", {<<"mine">>}),
      "document", {<<"doc">>}),
    "boost", {0, 3})

AllOptions ==
  [searchInComments : BOOLEAN, searchInDocuments : BOOLEAN]

\* The variables of the other scenarios, at rest.
CodecIdle ==
  /\ codecPc = "idle"
  /\ codecValue = JNull
  /\ codecVar = <<>>
  /\ codecReadVar = <<>>
  /\ codecFile = <<>>
  /\ codecResult = Thrown("none")

FillIdle ==
  /\ fillPc = "idle"
  /\ fillLegacy = FALSE
  /\ fillRow = [url |-> ""]
  /\ fillOnce = [url |-> ""]
  /\ fillTwice = [url |-> ""]

FillInit ==
  /\ fillPc = "start"
  /\ fillLegacy \in BOOLEAN
  /\ fillRow \in FillRows
  /\ fillOnce = fillRow
  /\ fillTwice = fillRow
  /\ options \in AllOptions

FillFirst ==
  /\ fillPc = "start"
  /\ fillOnce' = FillStep(fillRow, options, fillLegacy)
  /\ fillPc' = "once"
  /\ UNCHANGED <<fillLegacy, fillRow, fillTwice, options>>
  /\ UNCHANGED <<codecVars, registryVars, jobVars,
               packageVars>>

FillSecond ==
  /\ fillPc = "once"
  /\ fillTwice' = FillStep(fillOnce, options, fillLegacy)
  /\ fillPc' = "twice"
  /\ UNCHANGED <<fillLegacy, fillRow, fillOnce, options>>
  /\ UNCHANGED <<codecVars, registryVars, jobVars,
               packageVars>>

FillNext == FillFirst \/ FillSecond

(***************************************************************************)
(* The callback registries: getSearchTasks, getNavigationTasks and the     *)
(* four registration functions.                                            *)
(***************************************************************************)

Apps == {"app1", "app2"}

\* The callbacks plugins register (their identities).
Callbacks == {"cbA", "cbB"}

\* { alter: [], format: [] }
NewTasks == [alter |-> <<>>, format |-> <<>>]

\* The store after getSearchTasks(app): a new registry is set for an app the
\* store does not hold.
GetSearchTasksStore(store, app) ==
  IF app \in DOMAIN store THEN store ELSE store @@ (app :> NewTasks)

\* A getSearchTasks that queues a job on every call.
GetSearchTasksJobsAlways(store, jobs, app) ==
  [jobs EXCEPT ![app] = Append(@, "search")]

\* The job queues after getSearchTasks(app): the search job is pushed when
\* the registry is created.
GetSearchTasksJobs(store, jobs, app) ==
  IF app \in DOMAIN store
    THEN jobs
    ELSE [jobs EXCEPT ![app] = Append(@, "search")]

GetNavigationTasksStore(store, app) ==
  IF app \in DOMAIN store THEN store ELSE store @@ (app :> NewTasks)

GetNavigationTasksJobs(store, jobs, app) ==
  IF app \in DOMAIN store
    THEN jobs
    ELSE [jobs EXCEPT ![app] = Append(@, "navigation")]

NoRegistrations ==
  [alterSearch |-> <<>>, formatSearch |-> <<>>,
   alterNavigation |-> <<>>, formatNavigation |-> <<>>]

RegistryInit ==
  /\ searchTasksStore = <<>>
  /\ navigationTasksStore = <<>>
  /\ postRenderAsyncJobs = [app \in Apps |-> <<>>]
  /\ registered = [app \in Apps |-> NoRegistrations]

\* alterSearch(app, callback)
AlterSearch(app, callback) ==
  /\ searchTasksStore' =
       [GetSearchTasksStore(searchTasksStore, app)
          EXCEPT ![app].alter = Append(@, callback)]
  /\ postRenderAsyncJobs' =
       GetSearchTasksJobs(searchTasksStore, postRenderAsyncJobs, app)
  /\ registered' = [registered EXCEPT ![app].alterSearch = Append(@, callback)]
  /\ UNCHANGED navigationTasksStore

\* formatSearch(app, callback)
FormatSearch(app, callback) ==
  /\ searchTasksStore' =
       [GetSearchTasksStore(searchTasksStore, app)
          EXCEPT ![app].format = Append(@, callback)]
  /\ postRenderAsyncJobs' =
       GetSearchTasksJobs(searchTasksStore, postRenderAsyncJobs, app)
  /\ registered' =
       [registered EXCEPT ![app].formatSearch = Append(@, callback)]
  /\ UNCHANGED navigationTasksStore

\* alterNavigation(app, callback)
AlterNavigation(app, callback) ==
  /\ navigationTasksStore' =
       [GetNavigationTasksStore(navigationTasksStore, app)
          EXCEPT ![app].alter = Append(@, callback)]
  /\ postRenderAsyncJobs' =
       GetNavigationTasksJobs(navigationTasksStore, postRenderAsyncJobs, app)
  /\ registered' =
       [registered EXCEPT ![app].alterNavigation = Append(@, callback)]
  /\ UNCHANGED searchTasksStore

\* formatNavigation(app, callback)
FormatNavigation(app, callback) ==
  /\ navigationTasksStore' =
       [GetNavigationTasksStore(navigationTasksStore, app)
          EXCEPT ![app].format = Append(@, callback)]
  /\ postRenderAsyncJobs' =
       GetNavigationTasksJobs(navigationTasksStore, postRenderAsyncJobs, app)
  /\ registered' =
       [registered EXCEPT ![app].formatNavigation = Append(@, callback)]
  /\ UNCHANGED searchTasksStore

\* The number of callbacks registered so far, over all apps.
RegistrationCount ==
  LET Count(app) ==
        Len(registered[app].alterSearch) + Len(registered[app].formatSearch)
        + Len(registered[app].alterNavigation)
        + Len(registered[app].formatNavigation)
      RECURSIVE Sum(_)
      Sum(S) == IF S = {} THEN 0
                ELSE LET a == CHOOSE a \in S : TRUE
                     IN Count(a) + Sum(S \ {a})
  IN Sum(Apps)

(***************************************************************************)
(* The artifacts on disk, at the level of the values the codec carries     *)
(* (the codec itself is ReadGzipJson and WriteGzipJson above).             *)
(***************************************************************************)

\* A file writeGzipJson wrote for the value.
WellFormed(value) == [wellFormed |-> TRUE, value |-> value]

\* A file that is missing, or whose content readGzipJson cannot decode.
Malformed == [wellFormed |-> FALSE]

\* await readGzipJson(path, variable)
ReadArtifact(file) ==
  IF file.wellFormed THEN Returned(file.value) ELSE Thrown("FormatError")

(***************************************************************************)
(* What a run did, in order: the history the ordering claims are about.    *)
(***************************************************************************)

\* at: the row position (search) or the node's path (navigation), <<>> when
\* there is none; name: the callback's, "" when there is none.
Event(e, at, name) == [e |-> e, at |-> at, name |-> name]

\* The fields of obj among the given ones that are set.
Pick(obj, fields) == [f \in DOMAIN obj \cap fields |-> obj[f]]

\* What a row holds of the fields the index is built from.
Snapshot(item) == Pick(item, {"url", "name", "comment", "document", "boost"})

\* A callback invocation that has not returned.
Invocation(phase, at, pos) == [phase |-> phase, at |-> at, pos |-> pos]

\* The events of the log that are one of the kinds, in order.
EventsOf(kinds) == SelectSeq(log, LAMBDA ev : ev.e \in kinds)

\* A callback that throws rejects the await, and with it the job; the
\* swallowing variant goes on as if it had returned.
AfterCallbackSwallow(effect, at) == at

AfterCallback(effect, at) == IF effect = "throw" THEN "failed" ELSE at

\* The loop after "alter(...)" was called at position pos without waiting
\* for it: it goes on to the next callback.
CallAlterNoAwait(pos) == [awaiting |-> FALSE, cbPos |-> pos + 1]

\* The loop after "await alter(...)" was called at position pos: suspended
\* until that call returns.
CallAlter(pos) == [awaiting |-> TRUE, cbPos |-> pos]

CallFormatNoAwait(pos) == [awaiting |-> FALSE, cbPos |-> pos + 1]

\* The loop after "await format(...)" was called at position pos.
CallFormat(pos) == [awaiting |-> TRUE, cbPos |-> pos]

(***************************************************************************)
(* The search job (the function getSearchTasks pushes to                   *)
(* postRenderAsyncJobs)                                                    *)
(***************************************************************************)

\* The most rows a list grows to (alter callbacks stop inserting there).
MaxRows == 3

\* What an alter callback may do to the rows.
SearchAlterEffects == {"none", "unshift", "shift", "reverse", "throw"}

\* The row of alterSearch's example.
AddedRow ==
  [url |-> "c.html", name |-> "Added", kind |-> 8388608,
   document |-> <<"Lorem">>]

Reverse(seq) == [k \in 1..Len(seq) |-> seq[Len(seq) + 1 - k]]

AlterAllowed(effect, rows) ==
  CASE effect = "unshift" -> Len(rows) < MaxRows
    [] effect = "shift" -> Len(rows) > 0
    [] effect = "reverse" -> Len(rows) > 1
    [] OTHER -> TRUE

ApplySearchAlter(effect, rows) ==
  CASE effect = "unshift" -> <<AddedRow>> \o rows
    [] effect = "shift" -> Tail(rows)
    [] effect = "reverse" -> Reverse(rows)
    [] OTHER -> rows

\* What a format callback may do to the item it is given.
SearchFormatEffects == {"none", "write", "exclude", "throw"}

\* "write" sets every field a SearchItem declares but url, which the
\* callback's type declares read-only.
ApplySearchFormat(effect, item) ==
  CASE effect = "write" ->
         SetField(SetField(SetField(SetField(SetField(SetField(SetField(item,
           "name", "Written"), "kind", 4), "classes", "written-class"),
           "parent", <<"Elsewhere">>), "comment", <<"written">>),
           "document", <<"rewritten">>), "boost", 2)
    [] effect = "exclude" -> SetField(item, "boost", 0)
    [] OTHER -> item

\* A row after a callback that was handed a copy of five of its fields.
FormattedItemProjected(item, written) ==
  Pick(written, {"name", "kind", "comment", "document", "boost"})
  @@ Pick(item, {"url", "classes", "parent"})

\* A row after a format callback: the callback is handed the row itself, so
\* the row is as the callback left it (written).
FormattedItem(item, written) == written

\* A document whose id counts the documents added before it.
IndexDocumentDense(item, id, reflIndex) ==
  Pick(item, {"name", "comment", "document", "boost"})
  @@ [id |-> Len(builder), fields |-> reflIndex]

\* The document handed to builder.add, with its boost attribute: name,
\* comment and document as they are set on the item, the extra search
\* fields of the item's reflection (fields: its index, 0 for none), the id.
IndexDocument(item, id, reflIndex) ==
  Pick(item, {"name", "comment", "document", "boost"})
  @@ [id |-> id, fields |-> reflIndex]

\* A job that adds a row of boost 0 too.
SearchJobAddsZero(item) ==
  /\ UrlOf(item, "url") # ""
  /\ (~Has(item, "boost") \/ item.boost >= 0)

\* The job adds a row that has a url and whose boost is unset or positive.
SearchJobAdds(item) ==
  /\ UrlOf(item, "url") # ""
  /\ (~Has(item, "boost") \/ item.boost > 0)

\* builder.add(..., { boost: item.boost ?? 1 })
SearchJobDocument(item, id, reflIndex) ==
  IndexDocument(IF Has(item, "boost") THEN item ELSE SetField(item, "boost", 1),
                id, reflIndex)

\* item.name = item.name ?? ''; delete item.comment, item.document,
\* item.boost
StripItem(item) ==
  LET named == IF Has(item, "name") THEN item ELSE SetField(item, "name", "")
  IN DeleteField(DeleteField(DeleteField(named, "comment"), "document"),
                 "boost")

SearchTasks == searchTasksStore[job.app]

\* The host starts the n-th job queued for the app.
RunPostRenderJob(app, n) ==
  /\ pc = "load"
  /\ n \in 1..Len(postRenderAsyncJobs[app])
  /\ postRenderAsyncJobs[app][n] = scenario
  /\ job' = [kind |-> scenario, app |-> app]
  /\ pc' = "read"
  /\ UNCHANGED <<scenario, disk, search, navItems, rowPos, cbPos,
                 reflectionIndex, builder, awaiting, inProgress,
                 legacyOptions, log, navPath, dummyItem>>
  /\ UNCHANGED <<codecVars, fillVars, options, registryVars,
               packageVars>>

\* const search = await readGzipJson(...)
SearchRead ==
  /\ pc = "read"
  /\ job.kind = "search"
  /\ LET result == ReadArtifact(disk.search)
     IN /\ log' = Append(log, Event("read", <<>>, "")
                              @@ [file |-> disk.search])
        /\ IF result.ok
             THEN /\ search' = result.value
                  /\ pc' = "alter"
                  /\ cbPos' = 1
             ELSE /\ pc' = "failed"
                  /\ UNCHANGED <<search, cbPos>>
  /\ UNCHANGED <<scenario, disk, job, navItems, rowPos, reflectionIndex,
                 builder, awaiting, inProgress, legacyOptions, navPath, dummyItem>>
  /\ UNCHANGED <<codecVars, fillVars, options, registryVars,
               packageVars>>

\* for (const alter of searchTasks.alter) { await alter(search.rows, ...) }:
\* the call.
SearchAlterCall ==
  /\ pc = "alter"
  /\ job.kind = "search"
  /\ ~awaiting
  /\ cbPos <= Len(SearchTasks.alter)
  /\ inProgress' = inProgress \cup {Invocation("alter", <<>>, cbPos)}
  /\ log' = Append(log, Event("alterCall", <<>>, SearchTasks.alter[cbPos]))
  /\ awaiting' = CallAlter(cbPos).awaiting
  /\ cbPos' = CallAlter(cbPos).cbPos
  /\ UNCHANGED <<scenario, disk, job, pc, search, navItems, rowPos,
                 reflectionIndex, builder, legacyOptions, navPath, dummyItem>>
  /\ UNCHANGED <<codecVars, fillVars, options, registryVars,
               packageVars>>

\* An alter callback does its work on the rows and returns, or throws; the
\* loop that awaits it goes on, or the job fails with the error.
SearchAlterReturn(inv, effect) ==
  /\ job.kind = "search"
  /\ inv \in inProgress
  /\ inv.phase = "alter"
  /\ pc \notin {"failed", "done"}
  /\ AlterAllowed(effect, search.rows)
  /\ search' = [search EXCEPT !.rows = ApplySearchAlter(effect, @)]
  /\ inProgress' = inProgress \ {inv}
  /\ log' = Append(log, Event(IF effect = "throw" THEN "alterThrow"
                                                  ELSE "alterReturn",
                              <<>>, SearchTasks.alter[inv.pos]))
  /\ IF awaiting /\ pc = "alter" /\ inv.pos = cbPos
       THEN /\ awaiting' = FALSE
            /\ pc' = AfterCallback(effect, pc)
            /\ cbPos' = cbPos + 1
       ELSE UNCHANGED <<awaiting, pc, cbPos>>
  /\ UNCHANGED <<scenario, disk, job, navItems, rowPos, reflectionIndex,
                 builder, legacyOptions, navPath, dummyItem>>
  /\ UNCHANGED <<codecVars, fillVars, options, registryVars,
               packageVars>>

\* After the alter loop: the options, the theme, the reflections, the
\* IndexEvent and the builder are set up.
SearchPrepare ==
  /\ pc = "alter"
  /\ job.kind = "search"
  /\ ~awaiting
  /\ cbPos > Len(SearchTasks.alter)
  /\ builder' = <<>>
  /\ rowPos' = 1
  /\ pc' = "rows"
  /\ UNCHANGED <<scenario, disk, job, search, navItems, cbPos,
                 reflectionIndex, awaiting, inProgress, legacyOptions, log, navPath, dummyItem>>
  /\ UNCHANGED <<codecVars, fillVars, options, registryVars,
               packageVars>>

\* One row of "for (const [id, item] of search.rows.entries())": the
\* reflection is looked up and the item filled.
SearchFill ==
  /\ pc = "rows"
  /\ job.kind = "search"
  /\ rowPos <= Len(search.rows)
  /\ reflectionIndex' =
       FindIndex(SearchReflections, UrlOf(search.rows[rowPos], "url"))
  /\ search' = [search EXCEPT !.rows[rowPos] = FillStep(@, options, FALSE)]
  /\ log' = Append(log, Event("fill", <<rowPos>>, ""))
  /\ cbPos' = 1
  /\ pc' = "format"
  /\ UNCHANGED <<scenario, disk, job, navItems, rowPos, builder, awaiting,
                 inProgress, legacyOptions, navPath, dummyItem>>
  /\ UNCHANGED <<codecVars, fillVars, options, registryVars,
               packageVars>>

\* for (const format of searchTasks.format) { await format(item, ...) }:
\* the call.
SearchFormatCall ==
  /\ pc = "format"
  /\ job.kind = "search"
  /\ ~awaiting
  /\ cbPos <= Len(SearchTasks.format)
  /\ inProgress' = inProgress \cup {Invocation("format", <<rowPos>>, cbPos)}
  /\ log' = Append(log, Event("formatCall", <<rowPos>>,
                              SearchTasks.format[cbPos]))
  /\ awaiting' = CallFormat(cbPos).awaiting
  /\ cbPos' = CallFormat(cbPos).cbPos
  /\ UNCHANGED <<scenario, disk, job, pc, search, navItems, rowPos,
                 reflectionIndex, builder, legacyOptions, navPath, dummyItem>>
  /\ UNCHANGED <<codecVars, fillVars, options, registryVars,
               packageVars>>

\* A format callback does its work on the item it was given and returns, or
\* throws.
SearchFormatReturn(inv, effect) ==
  /\ job.kind = "search"
  /\ inv \in inProgress
  /\ inv.phase = "format"
  /\ pc \notin {"failed", "done"}
  /\ search' = [search EXCEPT !.rows[inv.at[1]] =
                                FormattedItem(@, ApplySearchFormat(effect, @))]
  /\ inProgress' = inProgress \ {inv}
  /\ log' = Append(log, Event(IF effect = "throw" THEN "formatThrow"
                                                  ELSE "formatReturn",
                              inv.at, SearchTasks.format[inv.pos]))
  /\ IF awaiting /\ pc = "format" /\ inv.pos = cbPos /\ inv.at = <<rowPos>>
       THEN /\ awaiting' = FALSE
            /\ pc' = AfterCallback(effect, pc)
            /\ cbPos' = cbPos + 1
       ELSE UNCHANGED <<awaiting, pc, cbPos>>
  /\ UNCHANGED <<scenario, disk, job, navItems, rowPos, reflectionIndex,
                 builder, legacyOptions, navPath, dummyItem>>
  /\ UNCHANGED <<codecVars, fillVars, options, registryVars,
               packageVars>>

\* After the format loop: the row is added to the builder, or not, and its
\* transient fields are removed.
SearchAdd ==
  /\ pc = "format"
  /\ job.kind = "search"
  /\ ~awaiting
  /\ cbPos > Len(SearchTasks.format)
  /\ LET item == search.rows[rowPos]
     IN /\ builder' =
             IF SearchJobAdds(item)
               THEN Append(builder,
                           SearchJobDocument(item, rowPos - 1, reflectionIndex))
               ELSE builder
        /\ log' = Append(log, Event("row", <<rowPos>>, "")
                              @@ [item |-> Snapshot(item)])
        /\ search' = [search EXCEPT !.rows[rowPos] = StripItem(item)]
  /\ rowPos' = rowPos + 1
  /\ pc' = "rows"
  /\ UNCHANGED <<scenario, disk, job, navItems, cbPos, reflectionIndex,
                 awaiting, inProgress, legacyOptions, navPath, dummyItem>>
  /\ UNCHANGED <<codecVars, fillVars, options, registryVars,
               packageVars>>

\* search.index = builder.build().toJSON(); await writeGzipJson(...)
SearchWrite ==
  /\ pc = "rows"
  /\ job.kind = "search"
  /\ rowPos > Len(search.rows)
  /\ search' = [search EXCEPT !.index = builder]
  /\ disk' = [disk EXCEPT !.search = WellFormed(search')]
  /\ log' = Append(log, Event("write", <<>>, ""))
  /\ pc' = "done"
  /\ UNCHANGED <<scenario, job, navItems, rowPos, cbPos, reflectionIndex,
                 builder, awaiting, inProgress, legacyOptions, navPath, dummyItem>>
  /\ UNCHANGED <<codecVars, fillVars, options, registryVars,
               packageVars>>

(***************************************************************************)
(* rebuildSearch (the legacy path): the caller hands it the search object  *)
(* and, optionally, format functions.                                      *)
(***************************************************************************)

LegacyFormatOptions == {"formatName", "formatComment", "formatDocument"}

\* What a format function may return: its argument, another string, or
\* undefined.
LegacyFormatResults == {"same", "other", "undefined"}

\* row[field] = options.format(row[field], reflection)
ApplyLegacyFormat(row, field, result, value) ==
  CASE result = "other" -> SetField(row, field, value)
    [] result = "undefined" -> DeleteField(row, field)
    [] OTHER -> row

\* delete row.comment, row.document, row.boost
LegacyStripRow(row) ==
  DeleteField(DeleteField(DeleteField(row, "comment"), "document"), "boost")

\* The set-up of rebuildSearch, before its loop.
LegacyStart(input, formats) ==
  /\ pc = "load"
  /\ scenario = "legacy"
  /\ job' = [kind |-> "legacy", app |-> "app1"]
  /\ search' = input
  /\ legacyOptions' = formats
  /\ builder' = <<>>
  /\ rowPos' = 1
  /\ pc' = "legacyRows"
  /\ UNCHANGED <<scenario, disk, navItems, cbPos, reflectionIndex, awaiting,
                 inProgress, navPath, dummyItem, log>>
  /\ UNCHANGED <<codecVars, fillVars, options, registryVars,
               packageVars>>

\* One row of "for (const [id, row] of search.rows.entries())".
LegacyRow(nameResult, commentResult, documentResult) ==
  /\ pc = "legacyRows"
  /\ rowPos <= Len(search.rows)
  /\ ("formatName" \notin legacyOptions) => nameResult = "same"
  /\ ("formatComment" \notin legacyOptions) => commentResult = "same"
  /\ ("formatDocument" \notin legacyOptions) => documentResult = "same"
  /\ LET before == search.rows[rowPos]
         found == FindIndex(SearchReflections, UrlOf(before, "url"))
         filled == FillStep(before, options, TRUE)
         formatted ==
           ApplyLegacyFormat(
             ApplyLegacyFormat(
               ApplyLegacyFormat(filled, "name", nameResult, "Formatted"),
               "comment", commentResult, <<"formatted">>),
             "document", documentResult, <<"formatted">>)
     IN IF UrlOf(before, "url") = ""
          THEN \* continue
               /\ log' = Append(log, Event("row", <<rowPos>>, "")
                                     @@ [given |-> Snapshot(before),
                                         item |-> Snapshot(before)])
               /\ UNCHANGED <<search, builder, reflectionIndex>>
          ELSE /\ reflectionIndex' = found
               /\ builder' =
                    Append(builder, IndexDocument(formatted, rowPos - 1, found))
               /\ search' =
                    [search EXCEPT !.rows[rowPos] = LegacyStripRow(formatted)]
               /\ log' = Append(log, Event("row", <<rowPos>>, "")
                                     @@ [given |-> Snapshot(before),
                                         item |-> Snapshot(formatted)])
  /\ rowPos' = rowPos + 1
  /\ UNCHANGED <<scenario, disk, job, pc, navItems, cbPos, awaiting,
                 inProgress, navPath, dummyItem, legacyOptions>>
  /\ UNCHANGED <<codecVars, fillVars, options, registryVars,
               packageVars>>

\* search.index = builder.build().toJSON(); return search
LegacyReturn ==
  /\ pc = "legacyRows"
  /\ rowPos > Len(search.rows)
  /\ search' = [search EXCEPT !.index = builder]
  /\ pc' = "done"
  /\ UNCHANGED <<scenario, disk, job, navItems, rowPos, cbPos,
                 reflectionIndex, builder, awaiting, inProgress, navPath,
                 dummyItem, legacyOptions, log>>
  /\ UNCHANGED <<codecVars, fillVars, options, registryVars,
               packageVars>>

(***************************************************************************)
(* The navigation job (the function getNavigationTasks pushes to           *)
(* postRenderAsyncJobs).  A class string is a sequence of its pieces.      *)
(***************************************************************************)

NavigationTasks == navigationTasksStore[job.app]

NavigationAlterEffects == {"none", "unshift", "shift", "throw"}

\* The node of alterNavigation's example.
AddedNode == [path |-> "b.html", text |-> "Foo", kind |-> 8388608]

ApplyNavigationAlter(effect, list) ==
  CASE effect = "unshift" -> <<AddedNode>> \o list
    [] effect = "shift" -> Tail(list)
    [] OTHER -> list

NavigationFormatEffects == {"none", "write", "throw"}

\* The written callback sets the text, the class and the path of the copy
\* it is given.
ApplyNavigationFormat(effect, dummy) ==
  CASE effect = "write" ->
         SetField(SetField(SetField(dummy, "text", "Written"),
                           "class", <<"foo-bar">>),
                  "path", "x.html")
    [] OTHER -> dummy

Front(seq) == SubSeq(seq, 1, Len(seq) - 1)

Last(seq) == seq[Len(seq)]

ChildrenOf(node) == IF Has(node, "children") THEN node.children ELSE <<>>

\* The node at a path of indexes.
RECURSIVE NodeAt(_, _)
NodeAt(list, path) ==
  IF Len(path) = 1
    THEN list[path[1]]
    ELSE NodeAt(list[path[1]].children, Tail(path))

\* The list with the node at the path replaced.
RECURSIVE ReplaceAt(_, _, _)
ReplaceAt(list, path, node) ==
  IF Len(path) = 1
    THEN [list EXCEPT ![path[1]] = node]
    ELSE [list EXCEPT ![path[1]] =
            SetField(@, "children", ReplaceAt(@.children, Tail(path), node))]

\* The list a node is an element of.
SiblingsAt(list, path) ==
  IF Len(path) = 1 THEN list ELSE NodeAt(list, Front(path)).children

\* Where the loops go on once the subtree at the path is done: the next
\* sibling, or the next sibling of the nearest ancestor that has one; <<>>
\* when the outermost loop ends.
RECURSIVE AfterSubtree(_, _)
AfterSubtree(list, path) ==
  CASE path = <<>> -> <<>>
    [] Last(path) < Len(SiblingsAt(list, path)) ->
         Front(path) \o <<Last(path) + 1>>
    [] OTHER -> AfterSubtree(list, Front(path))

\* A loop that goes on to the next sibling without visiting the children.
AfterNodeNoRecursion(list, path) == AfterSubtree(list, path)

\* if (item.children && item.children.length) recurse, else go on
AfterNode(list, path) ==
  IF ChildrenOf(NodeAt(list, path)) # <<>>
    THEN path \o <<1>>
    ELSE AfterSubtree(list, path)

\* The derived class with "deprecated" put right before it, no space between.
DerivedClassUnspaced(reflection) ==
  LET themed == IF /\ reflection.cls \in {"Declaration", "Document"}
                   /\ reflection.classes # ""
                  THEN <<reflection.classes>>
                  ELSE <<>>
  IN IF reflection.isDeprecated THEN <<"deprecated">> \o themed ELSE themed

\* The class the fill step derives for a reflection: a class string is the
\* sequence of the pieces it is concatenated from, '' the empty sequence.
DerivedClass(reflection) ==
  LET themed == IF /\ reflection.cls \in {"Declaration", "Document"}
                   /\ reflection.classes # ""
                  THEN <<reflection.classes>>
                  ELSE <<>>
  IN IF reflection.isDeprecated
       THEN <<"deprecated">>
            \o (IF themed # <<>> THEN <<" ">> \o themed ELSE themed)
       ELSE themed

\* The body of "if (reflection) { ... }" in formatNavigationItems.
FillNavigationItem(item, reflection) ==
  LET withText == IF ~Has(item, "text")
                    THEN SetField(item, "text", reflection.name)
                    ELSE item
      withKind == IF ~Has(withText, "kind")
                    THEN SetField(withText, "kind", reflection.kind)
                    ELSE withText
  IN IF ~Has(withKind, "class")
       THEN SetField(withKind, "class", DerivedClass(reflection))
       ELSE withKind

NavigationFillStep(item) ==
  LET found == FindIndex(NavigationReflections, UrlOf(item, "path"))
  IN IF found = 0 THEN item
     ELSE FillNavigationItem(item, NavigationReflections[found])

\* item.text = dummyItem.text, and so for kind and class: a field the copy
\* lacks becomes undefined on the item.
AssignFromDummy(item, dummy) ==
  LET Assign(obj, field) ==
        IF Has(dummy, field)
          THEN SetField(obj, field, dummy[field])
          ELSE DeleteField(obj, field)
  IN Assign(Assign(Assign(item, "text"), "kind"), "class")

\* const items = await readGzipJson(...)
NavigationRead ==
  /\ pc = "read"
  /\ job.kind = "navigation"
  /\ LET result == ReadArtifact(disk.navigation)
     IN /\ log' = Append(log, Event("read", <<>>, "")
                              @@ [file |-> disk.navigation])
        /\ IF result.ok
             THEN /\ navItems' = result.value
                  /\ pc' = "alter"
                  /\ cbPos' = 1
             ELSE /\ pc' = "failed"
                  /\ UNCHANGED <<navItems, cbPos>>
  /\ UNCHANGED <<scenario, disk, job, search, rowPos, reflectionIndex,
                 builder, awaiting, inProgress, navPath, dummyItem,
                 legacyOptions>>
  /\ UNCHANGED <<codecVars, fillVars, options, registryVars,
               packageVars>>

\* for (const alter of navigationTasks.alter) { await alter(items, ...) }:
\* the call.
NavigationAlterCall ==
  /\ pc = "alter"
  /\ job.kind = "navigation"
  /\ ~awaiting
  /\ cbPos <= Len(NavigationTasks.alter)
  /\ inProgress' = inProgress \cup {Invocation("alter", <<>>, cbPos)}
  /\ log' = Append(log, Event("alterCall", <<>>,
                              NavigationTasks.alter[cbPos]))
  /\ awaiting' = CallAlter(cbPos).awaiting
  /\ cbPos' = CallAlter(cbPos).cbPos
  /\ UNCHANGED <<scenario, disk, job, pc, search, navItems, rowPos,
                 reflectionIndex, builder, navPath, dummyItem, legacyOptions>>
  /\ UNCHANGED <<codecVars, fillVars, options, registryVars,
               packageVars>>

NavigationAlterReturn(inv, effect) ==
  /\ job.kind = "navigation"
  /\ inv \in inProgress
  /\ inv.phase = "alter"
  /\ pc \notin {"failed", "done"}
  /\ AlterAllowed(effect, navItems)
  /\ navItems' = ApplyNavigationAlter(effect, navItems)
  /\ inProgress' = inProgress \ {inv}
  /\ log' = Append(log, Event(IF effect = "throw" THEN "alterThrow"
                                                  ELSE "alterReturn",
                              <<>>, NavigationTasks.alter[inv.pos]))
  /\ IF awaiting /\ pc = "alter" /\ inv.pos = cbPos
       THEN /\ awaiting' = FALSE
            /\ pc' = AfterCallback(effect, pc)
            /\ cbPos' = cbPos + 1
       ELSE UNCHANGED <<awaiting, pc, cbPos>>
  /\ UNCHANGED <<scenario, disk, job, search, rowPos, reflectionIndex,
                 builder, navPath, dummyItem, legacyOptions>>
  /\ UNCHANGED <<codecVars, fillVars, options, registryVars,
               packageVars>>

\* After the alter loop: the theme and the reflections are set up and
\* formatNavigationItems(items) is called.
NavigationPrepare ==
  /\ pc = "alter"
  /\ job.kind = "navigation"
  /\ ~awaiting
  /\ cbPos > Len(NavigationTasks.alter)
  /\ navPath' = IF navItems = <<>> THEN <<>> ELSE <<1>>
  /\ pc' = "nodes"
  /\ UNCHANGED <<scenario, disk, job, search, navItems, rowPos, cbPos,
                 reflectionIndex, builder, awaiting, inProgress, dummyItem,
                 legacyOptions, log>>
  /\ UNCHANGED <<codecVars, fillVars, options, registryVars,
               packageVars>>

\* One node of "for (const item of items)": the reflection is looked up,
\* the item filled and copied.
NavigationFill ==
  /\ pc = "nodes"
  /\ job.kind = "navigation"
  /\ navPath # <<>>
  /\ LET item == NavigationFillStep(NodeAt(navItems, navPath))
     IN /\ navItems' = ReplaceAt(navItems, navPath, item)
        /\ dummyItem' = Pick(item, {"path", "text", "kind", "class"})
        /\ reflectionIndex' =
             FindIndex(NavigationReflections, UrlOf(item, "path"))
  /\ log' = Append(log, Event("fill", navPath, "")
                        @@ [given |-> Pick(NodeAt(navItems, navPath),
                                           {"class"})])
  /\ cbPos' = 1
  /\ pc' = "format"
  /\ UNCHANGED <<scenario, disk, job, search, rowPos, builder, awaiting,
                 inProgress, navPath, legacyOptions>>
  /\ UNCHANGED <<codecVars, fillVars, options, registryVars,
               packageVars>>

NavigationFormatCall ==
  /\ pc = "format"
  /\ job.kind = "navigation"
  /\ ~awaiting
  /\ cbPos <= Len(NavigationTasks.format)
  /\ inProgress' = inProgress \cup {Invocation("format", navPath, cbPos)}
  /\ log' = Append(log, Event("formatCall", navPath,
                              NavigationTasks.format[cbPos]))
  /\ awaiting' = CallFormat(cbPos).awaiting
  /\ cbPos' = CallFormat(cbPos).cbPos
  /\ UNCHANGED <<scenario, disk, job, pc, search, navItems, rowPos,
                 reflectionIndex, builder, navPath, dummyItem, legacyOptions>>
  /\ UNCHANGED <<codecVars, fillVars, options, registryVars,
               packageVars>>

NavigationFormatReturn(inv, effect) ==
  /\ job.kind = "navigation"
  /\ inv \in inProgress
  /\ inv.phase = "format"
  /\ pc \notin {"failed", "done"}
  /\ dummyItem' = ApplyNavigationFormat(effect, dummyItem)
  /\ inProgress' = inProgress \ {inv}
  /\ log' = Append(log, Event(IF effect = "throw" THEN "formatThrow"
                                                  ELSE "formatReturn",
                              inv.at, NavigationTasks.format[inv.pos]))
  /\ IF awaiting /\ pc = "format" /\ inv.pos = cbPos /\ inv.at = navPath
       THEN /\ awaiting' = FALSE
            /\ pc' = AfterCallback(effect, pc)
            /\ cbPos' = cbPos + 1
       ELSE UNCHANGED <<awaiting, pc, cbPos>>
  /\ UNCHANGED <<scenario, disk, job, search, navItems, rowPos,
                 reflectionIndex, builder, navPath, legacyOptions>>
  /\ UNCHANGED <<codecVars, fillVars, options, registryVars,
               packageVars>>

\* After the format loop: the copy's text, kind and class are assigned to
\* the item, and the loops go on with its children, if any.
NavigationAssign ==
  /\ pc = "format"
  /\ job.kind = "navigation"
  /\ ~awaiting
  /\ cbPos > Len(NavigationTasks.format)
  /\ navItems' =
       ReplaceAt(navItems, navPath,
                 AssignFromDummy(NodeAt(navItems, navPath), dummyItem))
  /\ navPath' = AfterNode(navItems, navPath)
  /\ log' = Append(log, Event("assign", navPath, ""))
  /\ pc' = "nodes"
  /\ UNCHANGED <<scenario, disk, job, search, rowPos, cbPos, reflectionIndex,
                 builder, awaiting, inProgress, dummyItem, legacyOptions>>
  /\ UNCHANGED <<codecVars, fillVars, options, registryVars,
               packageVars>>

\* await writeGzipJson(..., items, 'window.navigationData')
NavigationWrite ==
  /\ pc = "nodes"
  /\ job.kind = "navigation"
  /\ navPath = <<>>
  /\ disk' = [disk EXCEPT !.navigation = WellFormed(navItems)]
  /\ log' = Append(log, Event("write", <<>>, ""))
  /\ pc' = "done"
  /\ UNCHANGED <<scenario, job, search, navItems, rowPos, cbPos,
                 reflectionIndex, builder, awaiting, inProgress, navPath,
                 dummyItem, legacyOptions>>
  /\ UNCHANGED <<codecVars, fillVars, options, registryVars,
               packageVars>>

(***************************************************************************)
(* getPackageFile: the walk up from the common directory.  A directory is  *)
(* the sequence of its entries, an entry a name and the text of the file.  *)
(***************************************************************************)

\* members: the value of the property key of a parsed object, if it has one
\* (the last member of that key).
Property(members, key) ==
  LET at == {i \in 1..Len(members) : members[i].k = key}
  IN IF at = {} THEN <<>>
     ELSE <<members[CHOOSE i \in at : \A j \in at : j <= i].v>>

\* typeof value
TypeOf(value) ==
  CASE value.t \in {"null", "arr", "obj"} -> "object"
    [] value.t = "str" -> "string"
    [] value.t = "bool" -> "boolean"
    [] OTHER -> "number"

\* value.key for a parsed value: the property (<<>>: undefined), or a
\* TypeError when the value is null.
GetProperty(value, key) ==
  CASE value.t = "null" -> Thrown("TypeError")
    [] value.t = "obj" -> Returned(Property(value.v, key))
    [] OTHER -> Returned(<<>>)

NameKey == <<"n", "a", "m", "e">>
VersionKey == <<"v", "e", "r", "s", "i", "o", "n">>

\* The try block with no check of the version.
ManifestAcceptedAnyVersion(text) ==
  LET parsed == JsonParse(text)
  IN /\ parsed.ok
     /\ TypeOf(parsed.value) = "object"
     /\ GetProperty(parsed.value, NameKey).ok
     /\ GetProperty(parsed.value, NameKey).value # <<>>
     /\ TypeOf(GetProperty(parsed.value, NameKey).value[1]) = "string"

\* The try block of the callback: TRUE when it reaches "return packageFile",
\* FALSE when JSON.parse throws, a property is read of null, or 'abort' is
\* thrown (all caught).
ManifestAccepted(text) ==
  LET parsed == JsonParse(text)
  IN /\ parsed.ok
     /\ TypeOf(parsed.value) = "object"
     /\ GetProperty(parsed.value, NameKey).ok
     /\ LET name == GetProperty(parsed.value, NameKey).value
            version == GetProperty(parsed.value, VersionKey).value
        IN /\ name # <<>>
           /\ TypeOf(name[1]) = "string"
           /\ version = <<>> \/ TypeOf(version[1]) = "string"

PackageJsonName == "package.json"

\* names.find((name) => /^package\.json$/.test(name)): the first entry of
\* that name, 0 when there is none.
FindPackageFile(entries) ==
  LET at == {i \in 1..Len(entries) : entries[i].name = PackageJsonName}
  IN IF at = {} THEN 0 ELSE CHOOSE i \in at : \A j \in at : i <= j

\* The callback given to escalade, on one directory: the file name it
\* returns, <<>> for undefined.
PackageCallback(entries) ==
  LET found == FindPackageFile(entries)
  IN IF found = 0 THEN <<>>
     ELSE IF ManifestAccepted(entries[found].text)
            THEN <<entries[found].name>>
            ELSE <<>>

\* escalade(start, callback): the callback on the directory at depth, then
\* on its parent, up to the root; the path (directory and file name) of the
\* first answer, <<>> when the root was passed.
RECURSIVE Escalade(_, _)
Escalade(dirs, depth) ==
  IF depth = 0 THEN <<>>
  ELSE LET answer == PackageCallback(dirs[depth])
       IN IF answer # <<>>
            THEN <<[dir |-> depth, file |-> answer[1]]>>
            ELSE Escalade(dirs, depth - 1)

\* getCommonDir(app) is the last directory of the chain.
GetPackageFileResult(dirs) == Escalade(dirs, Len(dirs))

MaxDirs == 3

Manifest(members) == JsonStringify(JObj(members))

NameMember(value) == [k |-> NameKey, v |-> value]
VersionMember(value) == [k |-> VersionKey, v |-> value]

\* The texts a package.json holds here.
ManifestTexts ==
  { <<"{">>,
    JsonStringify(JNull),
    JsonStringify(JNum(7)),
    JsonStringify(JArr(<<JStr(<<"p">>)>>)),
    Manifest(<<>>),
    Manifest(<<NameMember(JNum(7))>>),
    Manifest(<<NameMember(JStr(<<"p">>))>>),
    Manifest(<<NameMember(JStr(<<"p">>)), VersionMember(JStr(<<"1">>))>>),
    Manifest(<<NameMember(JStr(<<"p">>)), VersionMember(JNum(1))>>) }

\* The directories: empty, with a package.json, or with a well-formed
\* manifest under another name.
Directories ==
  { <<>>,
    <<[name |-> "package-lock.json",
       text |-> Manifest(<<NameMember(JStr(<<"p">>))>>)]>> }
  \cup { <<[name |-> PackageJsonName, text |-> text]>> :
           text \in ManifestTexts }

PackageIdle ==
  /\ packagePc = "idle"
  /\ packageDirs = <<>>
  /\ packageResult = <<>>

PackageInit ==
  /\ packagePc = "start"
  /\ packageDirs \in UNION {[1..n -> Directories] : n \in 1..MaxDirs}
  /\ packageResult = <<>>

\* getPackageFile(app)
GetPackageFile ==
  /\ packagePc = "start"
  /\ packageResult' = GetPackageFileResult(packageDirs)
  /\ packagePc' = "done"
  /\ UNCHANGED packageDirs
  /\ UNCHANGED <<codecVars, fillVars, options, registryVars, jobVars>>

(***************************************************************************)
(* The runs: what is on disk, what is registered, and the steps.           *)
(***************************************************************************)

\* The most callbacks registered in a run.
MaxRegistrations == 2

RowA == [url |-> "a.html"]

RowB == [url |-> "b.html", name |-> "Given", kind |-> 2,
         comment |-> <<"mine">>, boost |-> 0]

RowC == [url |-> "c.html"]

RowD == [url |-> "d.html", boost |-> -1]

RowZ == [url |-> "z.html", document |-> <<"doc">>]

RowNoUrl == [url |-> "", comment |-> <<"orphan">>, boost |-> 4]

\* The row lists of assets/search.js, or given to rebuildSearch.
SearchRowLists ==
  {<<>>, <<RowA>>, <<RowA, RowB>>, <<RowNoUrl, RowA>>, <<RowC, RowZ>>,
   <<RowD, RowA>>, <<RowA, RowA>>}

SearchValues == {[rows |-> rows, index |-> <<>>] : rows \in SearchRowLists}

\* The trees of assets/navigation.js.
NavigationValues ==
  {<<>>,
   <<[path |-> "s.html", text |-> "Call", children |-> <<>>]>>,
   <<[path |-> "a.html", children |-> <<[path |-> "d.html"]>>],
     [path |-> "index.html", kind |-> 1]>>,
   <<[text |-> "Group", path |-> "",
      children |-> <<[path |-> "c.html", class |-> <<"own">>]>>]>>}

Scenarios == {"search", "navigation", "legacy"}

\* The application the run renders.
RenderedApp == "app1"

NoOptions == [searchInComments |-> FALSE, searchInDocuments |-> FALSE]

RegistryIdle == RegistryInit

JobIdle ==
  /\ scenario = "none"
  /\ disk = [search |-> Malformed, navigation |-> Malformed]
  /\ job = [kind |-> "none", app |-> RenderedApp]
  /\ pc = "idle"
  /\ search = [rows |-> <<>>, index |-> <<>>]
  /\ navItems = <<>>
  /\ rowPos = 1
  /\ cbPos = 1
  /\ reflectionIndex = 0
  /\ builder = <<>>
  /\ awaiting = FALSE
  /\ inProgress = {}
  /\ navPath = <<>>
  /\ dummyItem = [path |-> ""]
  /\ legacyOptions = {}
  /\ log = <<>>

JobInit ==
  /\ scenario \in Scenarios
  /\ disk \in
       CASE scenario = "search" ->
              {[search |-> file, navigation |-> Malformed] :
                 file \in {WellFormed(v) : v \in SearchValues} \cup {Malformed}}
         [] scenario = "navigation" ->
              {[search |-> Malformed, navigation |-> file] :
                 file \in {WellFormed(v) : v \in NavigationValues}
                          \cup {Malformed}}
         [] OTHER -> {[search |-> Malformed, navigation |-> Malformed]}
  /\ options \in IF scenario = "navigation" THEN {NoOptions} ELSE AllOptions
  /\ job = [kind |-> "none", app |-> RenderedApp]
  /\ pc = "load"
  /\ search = [rows |-> <<>>, index |-> <<>>]
  /\ navItems = <<>>
  /\ rowPos = 1
  /\ cbPos = 1
  /\ reflectionIndex = 0
  /\ builder = <<>>
  /\ awaiting = FALSE
  /\ inProgress = {}
  /\ navPath = <<>>
  /\ dummyItem = [path |-> ""]
  /\ legacyOptions = {}
  /\ log = <<>>

Init == CodecIdle /\ FillIdle /\ RegistryInit /\ JobInit /\ PackageIdle

\* Plugins register their callbacks while the application loads.
RegisterAlterSearch ==
  /\ pc = "load" /\ scenario = "search"
  /\ RegistrationCount < MaxRegistrations
  /\ \E callback \in Callbacks : AlterSearch(RenderedApp, callback)
  /\ UNCHANGED <<codecVars, fillVars, options, jobVars,
               packageVars>>

RegisterFormatSearch ==
  /\ pc = "load" /\ scenario = "search"
  /\ RegistrationCount < MaxRegistrations
  /\ \E callback \in Callbacks : FormatSearch(RenderedApp, callback)
  /\ UNCHANGED <<codecVars, fillVars, options, jobVars,
               packageVars>>

RegisterAlterNavigation ==
  /\ pc = "load" /\ scenario = "navigation"
  /\ RegistrationCount < MaxRegistrations
  /\ \E callback \in Callbacks : AlterNavigation(RenderedApp, callback)
  /\ UNCHANGED <<codecVars, fillVars, options, jobVars,
               packageVars>>

RegisterFormatNavigation ==
  /\ pc = "load" /\ scenario = "navigation"
  /\ RegistrationCount < MaxRegistrations
  /\ \E callback \in Callbacks : FormatNavigation(RenderedApp, callback)
  /\ UNCHANGED <<codecVars, fillVars, options, jobVars,
               packageVars>>

StartJob ==
  \E n \in 1..Len(postRenderAsyncJobs[RenderedApp]) :
    RunPostRenderJob(RenderedApp, n)

SearchAlterReturns ==
  \E inv \in inProgress, effect \in SearchAlterEffects :
    SearchAlterReturn(inv, effect)

SearchFormatReturns ==
  \E inv \in inProgress, effect \in SearchFormatEffects :
    SearchFormatReturn(inv, effect)

NavigationAlterReturns ==
  \E inv \in inProgress, effect \in NavigationAlterEffects :
    NavigationAlterReturn(inv, effect)

NavigationFormatReturns ==
  \E inv \in inProgress, effect \in NavigationFormatEffects :
    NavigationFormatReturn(inv, effect)

CallRebuildSearch ==
  \E input \in SearchValues, formats \in SUBSET LegacyFormatOptions :
    LegacyStart(input, formats)

LegacyRows ==
  \E nameResult \in LegacyFormatResults,
     commentResult \in LegacyFormatResults,
     documentResult \in LegacyFormatResults :
    LegacyRow(nameResult, commentResult, documentResult)

Next ==
  \/ RegisterAlterSearch
  \/ RegisterFormatSearch
  \/ RegisterAlterNavigation
  \/ RegisterFormatNavigation
  \/ StartJob
  \/ SearchRead
  \/ SearchAlterCall
  \/ SearchAlterReturns
  \/ SearchPrepare
  \/ SearchFill
  \/ SearchFormatCall
  \/ SearchFormatReturns
  \/ SearchAdd
  \/ SearchWrite
  \/ NavigationRead
  \/ NavigationAlterCall
  \/ NavigationAlterReturns
  \/ NavigationPrepare
  \/ NavigationFill
  \/ NavigationFormatCall
  \/ NavigationFormatReturns
  \/ NavigationAssign
  \/ NavigationWrite
  \/ CallRebuildSearch
  \/ LegacyRows
  \/ LegacyReturn

Spec == Init /\ [][Next]_vars

(***************************************************************************)
(* The codec, the fill step and the registrations, each on its own.        *)
(***************************************************************************)

InitCodec ==
  /\ CodecInit /\ FillIdle /\ options = NoOptions /\ RegistryIdle /\ JobIdle
  /\ PackageIdle

SpecCodec == InitCodec /\ [][CodecNext]_vars

InitFill ==
  CodecIdle /\ FillInit /\ RegistryIdle /\ JobIdle /\ PackageIdle

SpecFill == InitFill /\ [][FillNext]_vars

CallAlterSearch ==
  /\ RegistrationCount < MaxRegistrations
  /\ \E app \in Apps, callback \in Callbacks : AlterSearch(app, callback)
  /\ UNCHANGED <<codecVars, fillVars, options, jobVars,
               packageVars>>

CallFormatSearch ==
  /\ RegistrationCount < MaxRegistrations
  /\ \E app \in Apps, callback \in Callbacks : FormatSearch(app, callback)
  /\ UNCHANGED <<codecVars, fillVars, options, jobVars,
               packageVars>>

CallAlterNavigation ==
  /\ RegistrationCount < MaxRegistrations
  /\ \E app \in Apps, callback \in Callbacks : AlterNavigation(app, callback)
  /\ UNCHANGED <<codecVars, fillVars, options, jobVars,
               packageVars>>

CallFormatNavigation ==
  /\ RegistrationCount < MaxRegistrations
  /\ \E app \in Apps, callback \in Callbacks : FormatNavigation(app, callback)
  /\ UNCHANGED <<codecVars, fillVars, options, jobVars,
               packageVars>>

RegNext ==
  \/ CallAlterSearch
  \/ CallFormatSearch
  \/ CallAlterNavigation
  \/ CallFormatNavigation

InitReg ==
  /\ CodecIdle /\ FillIdle /\ options = NoOptions /\ RegistryInit /\ JobIdle
  /\ PackageIdle

SpecReg == InitReg /\ [][RegNext]_vars

InitPackage ==
  /\ CodecIdle /\ FillIdle /\ options = NoOptions /\ RegistryIdle /\ JobIdle
  /\ PackageInit

PackageNext == GetPackageFile

SpecPackage == InitPackage /\ [][PackageNext]_vars

(***************************************************************************)
(* Properties                                                              *)
(***************************************************************************)

\* The callbacks registered for the job that runs, in registration order.
RegisteredAlter ==
  IF job.kind = "search"
    THEN registered[job.app].alterSearch
    ELSE registered[job.app].alterNavigation

RegisteredFormat ==
  IF job.kind = "search"
    THEN registered[job.app].formatSearch
    ELSE registered[job.app].formatNavigation

\* The events of the log about one row or node, in order.
EventsAt(at) == SelectSeq(log, LAMBDA ev : ev.at = at)

HasRowEvent(p) ==
  \E i \in 1..Len(log) : log[i].e = "row" /\ log[i].at = <<p>>

\* The event of the decision on the row at position p.
RowEvent(p) ==
  log[CHOOSE i \in 1..Len(log) : log[i].e = "row" /\ log[i].at = <<p>>]

HasDocument(index, id) == \E k \in 1..Len(index) : index[k].id = id

DocumentOf(index, id) ==
  index[CHOOSE k \in 1..Len(index) : index[k].id = id]

\* C2: in the search job and in the navigation job the alter callbacks are
\* called in registration order, each one returns before the next is
\* called (never two in progress), and all of them have returned before a
\* row or node is filled or a format callback is called.
AlterSequential ==
  job.kind \in {"search", "navigation"} =>
    LET alters == EventsOf({"alterCall", "alterReturn", "alterThrow"})
        calls == EventsOf({"alterCall"})
    IN /\ Len(calls) <= Len(RegisteredAlter)
       /\ \A i \in 1..Len(calls) : calls[i].name = RegisteredAlter[i]
       /\ \A i \in 1..Len(alters) :
            IF i % 2 = 1
              THEN alters[i].e = "alterCall"
              ELSE /\ alters[i].e # "alterCall"
                   /\ alters[i].name = alters[i - 1].name
       /\ Cardinality({inv \in inProgress : inv.phase = "alter"}) <= 1
       /\ \A k \in 1..Len(log) :
            log[k].e \in {"fill", "formatCall"} =>
              Len(SelectSeq(SubSeq(log, 1, k),
                            LAMBDA ev : ev.e = "alterReturn"))
                = Len(RegisteredAlter)

\* cbB then cbA were registered, both ran and returned in that order, and
\* then a row was filled.
AlterSequentialWitness ==
  /\ job.kind = "search"
  /\ registered[job.app].alterSearch = <<"cbB", "cbA">>
  /\ EventsOf({"alterReturn"}) = <<Event("alterReturn", <<>>, "cbB"),
                                   Event("alterReturn", <<>>, "cbA")>>
  /\ \E k \in 1..Len(log) : log[k].e = "fill"

\* C3: in the search job, for every row, the format callbacks are called in
\* registration order, one at a time, after the row's fill step and before
\* the decision to add it; the index document of a row that is added holds
\* the name, comment, document and boost the row has once the callbacks
\* have returned.
FormatSequential ==
  job.kind = "search" =>
    /\ Cardinality({inv \in inProgress : inv.phase = "format"}) <= 1
    /\ \A p \in 1..Len(search.rows) :
         LET evs == EventsAt(<<p>>)
             nf == Len(RegisteredFormat)
         IN /\ evs # <<>> => evs[1].e = "fill"
            /\ \A i \in 2..Len(evs) :
                 CASE i > 2 * nf + 1 -> i = 2 * nf + 2 /\ evs[i].e = "row"
                   [] i % 2 = 0 ->
                        /\ evs[i].e = "formatCall"
                        /\ evs[i].name = RegisteredFormat[i \div 2]
                   [] OTHER ->
                        /\ evs[i].e \in {"formatReturn", "formatThrow"}
                        /\ evs[i].name = evs[i - 1].name
            /\ (/\ HasRowEvent(p)
                /\ HasDocument(builder, p - 1)) =>
                 LET held == RowEvent(p).item
                     doc == DocumentOf(builder, p - 1)
                 IN /\ Pick(doc, {"name", "comment", "document"})
                         = Pick(held, {"name", "comment", "document"})
                    /\ Has(held, "boost") => doc.boost = held.boost

\* Row a.html was filled from Foo, two format callbacks ran on it in
\* registration order, and the document added holds what they wrote.
FormatSequentialWitness ==
  /\ job.kind = "search"
  /\ registered[job.app].formatSearch = <<"cbA", "cbB">>
  /\ Len(EventsAt(<<1>>)) = 6
  /\ RowEvent(1).item.url = "a.html"
  /\ HasDocument(builder, 0)
  /\ DocumentOf(builder, 0).name = "Written"
  /\ DocumentOf(builder, 0).document = <<"rewritten">>
  /\ DocumentOf(builder, 0).boost = 2

\* The rows and the index a finished rebuild leaves: what the search job
\* wrote to disk, what rebuildSearch returned.
FinalSearch == IF job.kind = "search" THEN disk.search.value ELSE search

BoostOf(held) == IF Has(held, "boost") THEN <<held.boost>> ELSE <<>>

\* C4: in the search job a row whose boost is 0 or negative once its format
\* callbacks have run is not added to the index, yet stays in the rows
\* written, at its position, without a boost; a row with a url and a
\* positive or unset boost is added.
NonPositiveBoostExcluded ==
  (pc = "done" /\ job.kind = "search") =>
    LET out == FinalSearch
    IN \A p \in 1..Len(search.rows) :
         LET held == RowEvent(p).item
         IN /\ HasRowEvent(p)
            /\ Len(out.rows) = Len(search.rows)
            /\ out.rows[p].url = held.url
            /\ ~Has(out.rows[p], "boost")
            /\ (BoostOf(held) # <<>> /\ held.boost <= 0)
                 => ~HasDocument(out.index, p - 1)
            /\ (held.url # "" /\ (BoostOf(held) = <<>> \/ held.boost > 0))
                 => HasDocument(out.index, p - 1)

\* Scenario 3: two rows, a format callback left the second with boost 0;
\* both rows are written, the index holds the document of id 0 only.
NonPositiveBoostExcludedWitness ==
  /\ pc = "done"
  /\ job.kind = "search"
  /\ registered[job.app].formatSearch # <<>>
  /\ log[1].file = WellFormed([rows |-> <<RowA, RowA>>, index |-> <<>>])
  /\ Len(disk.search.value.rows) = 2
  /\ BoostOf(RowEvent(2).item) = <<0>>
  /\ ~Has(disk.search.value.rows[2], "boost")
  /\ Len(disk.search.value.index) = 1
  /\ disk.search.value.index[1].id = 0

\* C5: after a rebuild (rebuildSearch, or the search job) no row of the
\* resulting list has a comment, a document or a boost.
NoTransientFieldsAfterRebuild ==
  (pc = "done" /\ job.kind \in {"search", "legacy"}) =>
    \A p \in 1..Len(FinalSearch.rows) :
      DOMAIN FinalSearch.rows[p] \cap {"comment", "document", "boost"} = {}

\* C6: the id of every document of the index is the zero-based position, in
\* the final rows, of the row it was built from; the rows that are not
\* added take up their positions all the same.
IdsArePositions ==
  (pc = "done" /\ job.kind \in {"search", "legacy"}) =>
    LET out == FinalSearch
    IN /\ \A k \in 1..Len(out.index) :
            LET id == out.index[k].id
            IN /\ id \in 0..(Len(out.rows) - 1)
               /\ out.index[k].fields
                    = FindIndex(SearchReflections, out.rows[id + 1].url)
               /\ HasRowEvent(id + 1)
               /\ RowEvent(id + 1).item.url = out.rows[id + 1].url
               /\ Pick(out.index[k], {"name", "comment", "document", "boost"})
                    = Pick(IF job.kind = "search"
                                /\ ~Has(RowEvent(id + 1).item, "boost")
                             THEN SetField(RowEvent(id + 1).item, "boost", 1)
                             ELSE RowEvent(id + 1).item,
                           {"name", "comment", "document", "boost"})
       /\ \A k \in 1..(Len(out.index) - 1) :
            out.index[k].id < out.index[k + 1].id

\* An alter callback put a row in front of a row without a url and of row
\* a.html: the documents have the ids 0 and 2, the row in between has none.
IdsArePositionsWitness ==
  /\ pc = "done"
  /\ job.kind = "search"
  /\ Len(FinalSearch.rows) = 3
  /\ FinalSearch.rows[1].url = "c.html"
  /\ FinalSearch.rows[2].url = ""
  /\ FinalSearch.rows[3].url = "a.html"
  /\ Len(FinalSearch.index) = 2
  /\ FinalSearch.index[1].id = 0
  /\ FinalSearch.index[2].id = 2

\* C7: whatever was registered, an application has a search registry
\* exactly when something was registered for its search, that registry
\* holds the callbacks registered against that application (and no others),
\* in order, and one search job is queued for it; likewise for navigation.
OneRegistryPerApp ==
  \A app \in Apps :
    LET r == registered[app]
        hasSearch == r.alterSearch # <<>> \/ r.formatSearch # <<>>
        hasNavigation == r.alterNavigation # <<>> \/ r.formatNavigation # <<>>
        Queued(kind) ==
          Len(SelectSeq(postRenderAsyncJobs[app], LAMBDA j : j = kind))
    IN /\ (app \in DOMAIN searchTasksStore) <=> hasSearch
       /\ hasSearch =>
            searchTasksStore[app]
              = [alter |-> r.alterSearch, format |-> r.formatSearch]
       /\ Queued("search") = IF hasSearch THEN 1 ELSE 0
       /\ (app \in DOMAIN navigationTasksStore) <=> hasNavigation
       /\ hasNavigation =>
            navigationTasksStore[app]
              = [alter |-> r.alterNavigation, format |-> r.formatNavigation]
       /\ Queued("navigation") = IF hasNavigation THEN 1 ELSE 0

\* An alter and a format callback registered for app1's search: one
\* registry that holds both, one search job, and nothing for app2.
OneRegistryPerAppWitness ==
  /\ registered["app1"].alterSearch = <<"cbA">>
  /\ registered["app1"].formatSearch = <<"cbB">>
  /\ searchTasksStore["app1"] = [alter |-> <<"cbA">>, format |-> <<"cbB">>]
  /\ "app2" \notin DOMAIN searchTasksStore
  /\ postRenderAsyncJobs["app1"] = <<"search">>
  /\ postRenderAsyncJobs["app2"] = <<>>

\* The paths of the nodes of a navigation tree.
RECURSIVE NodePaths(_, _)
NodePaths(list, prefix) ==
  UNION {{prefix \o <<i>>}
         \cup NodePaths(ChildrenOf(list[i]), prefix \o <<i>>) :
           i \in 1..Len(list)}

\* Every row, or every node, has been through its format callbacks and the
\* step after them.
AllProcessed ==
  IF job.kind = "search"
    THEN \A p \in 1..Len(search.rows) : HasRowEvent(p)
    ELSE \A path \in NodePaths(navItems, <<>>) :
           \E i \in 1..Len(log) : log[i].e = "assign" /\ log[i].at = path

\* The artifact of the job that runs.
Artifact == IF job.kind = "search" THEN disk.search ELSE disk.navigation

\* C8: a run of the search job or of the navigation job reads the artifact
\* once, before anything else; it writes it at most once, as its last step,
\* when every callback has returned and every row or node is processed; if
\* the file cannot be decoded or a callback throws, the job fails and the
\* artifact is as it was read.
ReadOnceWriteLast ==
  job.kind \in {"search", "navigation"} =>
    LET reads == EventsOf({"read"})
        writes == EventsOf({"write"})
        throws == EventsOf({"alterThrow", "formatThrow"})
    IN /\ Len(reads) <= 1
       /\ log # <<>> => log[1].e = "read"
       /\ pc \notin {"load", "read"} => Len(reads) = 1
       /\ Len(writes) <= 1
       /\ writes # <<>> =>
            /\ log[Len(log)].e = "write"
            /\ pc = "done"
            /\ inProgress = {}
            /\ throws = <<>>
            /\ Len(EventsOf({"alterReturn"})) = Len(RegisteredAlter)
            /\ AllProcessed
            /\ Artifact = WellFormed(IF job.kind = "search" THEN search
                                                            ELSE navItems)
       /\ (writes = <<>> /\ reads # <<>>) => Artifact = reads[1].file
       /\ (throws # <<>> \/ (reads # <<>> /\ ~reads[1].file.wellFormed)) =>
            pc = "failed" /\ writes = <<>>
       /\ pc = "failed" => writes = <<>>

\* The second row's format callback threw after the first row was done:
\* the job failed and assets/search.js is as it was read.
ReadOnceWriteLastWitness ==
  /\ job.kind = "search"
  /\ pc = "failed"
  /\ HasRowEvent(1)
  /\ EventsOf({"formatThrow"}) = <<Event("formatThrow", <<2>>, "cbA")>>
  /\ disk.search = log[1].file
  /\ disk.search.wellFormed

\* C9: the fill step leaves every field the row has as it is, and a second
\* fill step changes nothing.
FillIdempotent ==
  /\ fillPc \in {"once", "twice"} =>
       \A f \in DOMAIN fillRow : Has(fillOnce, f) /\ fillOnce[f] = fillRow[f]
  /\ fillPc = "twice" => fillTwice = fillOnce

\* Row a.html with a name of its own: the first fill step took the kind
\* from Foo and kept the name, the second changed nothing.
FillIdempotentWitness ==
  /\ fillPc = "twice"
  /\ fillRow = [url |-> "a.html", name |-> "Given"]
  /\ fillOnce.kind = 64
  /\ fillOnce.name = "Given"
  /\ fillOnce.boost = 1
  /\ fillTwice = fillOnce

\* C10, as the claim states it: after rebuildSearch every row that has a
\* url has a document in the index, and that document's boost is set and
\* positive.
LegacyBoostPositive ==
  (pc = "done" /\ job.kind = "legacy") =>
    \A p \in 1..Len(search.rows) :
      RowEvent(p).given.url # "" =>
        /\ HasDocument(search.index, p - 1)
        /\ Has(DocumentOf(search.index, p - 1), "boost")
        /\ DocumentOf(search.index, p - 1).boost > 0

\* C10, amended: after rebuildSearch every row that has a url has a
\* document in the index; the boost of the document is the one the row was
\* given, whatever its sign; for a row given none it is the relevance boost
\* of the row's reflection, or 1 when that is 0 or negative; a row given
\* none that has no reflection is added without a boost.
LegacyDerivedBoostNormalized ==
  (pc = "done" /\ job.kind = "legacy") =>
    \A p \in 1..Len(search.rows) :
      LET given == RowEvent(p).given
          found == FindIndex(SearchReflections, given.url)
          doc == DocumentOf(search.index, p - 1)
      IN given.url # "" =>
           /\ HasDocument(search.index, p - 1)
           /\ CASE Has(given, "boost") ->
                     BoostOf(doc) = <<given.boost>>
                [] found # 0 ->
                     /\ Has(doc, "boost")
                     /\ doc.boost > 0
                     /\ doc.boost \in {1, RelevanceBoost(SearchReflections[found])}
                     /\ RelevanceBoost(SearchReflections[found]) > 0
                          => doc.boost = RelevanceBoost(SearchReflections[found])
                [] OTHER -> ~Has(doc, "boost")

\* rebuildSearch on rows c.html (its accessor has the relevance boost -1)
\* and z.html (no reflection): the first document has the boost 1, the
\* second has none.
LegacyDerivedBoostNormalizedWitness ==
  /\ pc = "done"
  /\ job.kind = "legacy"
  /\ Len(search.rows) = 2
  /\ RowEvent(1).given = [url |-> "c.html"]
  /\ RowEvent(2).given.url = "z.html"
  /\ Len(search.index) = 2
  /\ BoostOf(search.index[1]) = <<1>>
  /\ BoostOf(search.index[2]) = <<>>


\* The fields of a row a format callback is said to leave alone.
FrameFields == {"url", "classes", "parent"}

\* The step is the return of a search format callback.
IsSearchFormatReturn ==
  /\ job.kind = "search"
  /\ Len(log') = Len(log) + 1
  /\ log'[Len(log')].e \in {"formatReturn", "formatThrow"}

HoldsWritten(held) ==
  (Has(held, "kind") /\ held.kind = 4) =>
    /\ Has(held, "name") /\ held.name = "Written"
    /\ Has(held, "classes") /\ held.classes = "written-class"
    /\ Has(held, "parent") /\ held.parent = <<"Elsewhere">>

JustFilledNode ==
  /\ job.kind = "navigation"
  /\ Len(log) > 0
  /\ log[Len(log)].e = "fill"

\* The reflection the node at navPath is matched to (0: none).
NodeMatch ==
  FindIndex(NavigationReflections,
            UrlOf(NodeAt(navItems, navPath), "path"))

\* "deprecated", then a space and the themed class when there is one.
DeprecatedClassOf(reflection) ==
  IF reflection.cls \in {"Declaration", "Document"}
       /\ reflection.classes # ""
    THEN <<"deprecated", " ", reflection.classes>>
    ELSE <<"deprecated">>

\* C12 as stated: whenever a node's path matches a deprecated entity, the
\* node's class after the fill step is "deprecated", a space and the derived
\* class, or just "deprecated" when the derived class is empty.
DeprecatedClassAlways ==
  (JustFilledNode /\ NodeMatch # 0
     /\ NavigationReflections[NodeMatch].isDeprecated) =>
    /\ Has(NodeAt(navItems, navPath), "class")
    /\ NodeAt(navItems, navPath).class
         = DeprecatedClassOf(NavigationReflections[NodeMatch])

\* C12, amended: a node that has no class of its own and whose path matches
\* a deprecated entity has after the fill step the class "deprecated", a
\* space and the derived class, or just "deprecated" when the derived class
\* is empty; a node that came with a class keeps it, deprecated entity or
\* not.
DeprecatedClassWhenUnset ==
  (JustFilledNode /\ NodeMatch # 0
     /\ NavigationReflections[NodeMatch].isDeprecated) =>
    /\ Has(NodeAt(navItems, navPath), "class")
    /\ NodeAt(navItems, navPath).class
         = IF Has(log[Len(log)].given, "class")
             THEN log[Len(log)].given.class
             ELSE DeprecatedClassOf(NavigationReflections[NodeMatch])

\* The node of the deprecated class Bar was filled with "deprecated
\* tsd-kind-class".
DeprecatedClassWhenUnsetWitness ==
  /\ JustFilledNode
  /\ NodeMatch # 0
  /\ NavigationReflections[NodeMatch].name = "Bar"
  /\ ~Has(log[Len(log)].given, "class")
  /\ NodeAt(navItems, navPath).class
       = <<"deprecated", " ", "tsd-kind-class">>


\* A directory holds a valid manifest: a file named package.json whose text
\* parses as JSON to an object with a string name and, if it has a version,
\* a string version.
HasValidManifest(entries) ==
  \E i \in 1..Len(entries) :
    /\ entries[i].name = "package.json"
    /\ JsonParse(entries[i].text).ok
    /\ LET value == JsonParse(entries[i].text).value
       IN /\ value.t = "obj"
          /\ \E m \in 1..Len(value.v) :
               value.v[m].k = NameKey /\ value.v[m].v.t = "str"
          /\ \A m \in 1..Len(value.v) :
               value.v[m].k = VersionKey => value.v[m].v.t = "str"

ValidDirs == {d \in 1..Len(packageDirs) : HasValidManifest(packageDirs[d])}

\* C13: getPackageFile returns the path of the package.json of the nearest
\* directory, from the common directory up to the root, that holds a valid
\* manifest; directories whose package.json is invalid are passed over
\* without an error; it returns null when no directory holds a valid one.
NearestValidManifest ==
  packagePc = "done" =>
    IF ValidDirs = {}
      THEN packageResult = <<>>
      ELSE packageResult
             = <<[dir |-> CHOOSE d \in ValidDirs : \A e \in ValidDirs : e <= d,
                  file |-> "package.json"]>>

\* The common directory holds a package.json with a version that is not a
\* string, its parent one that does not parse, the root a valid one, which
\* is the one returned.
NearestValidManifestWitness ==
  /\ packagePc = "done"
  /\ Len(packageDirs) = 3
  /\ packageDirs[3] = <<[name |-> "package.json",
                         text |-> Manifest(<<NameMember(JStr(<<"p">>)),
                                             VersionMember(JNum(1))>>)]>>
  /\ packageDirs[2] = <<[name |-> "package.json", text |-> <<"{">>]>>
  /\ HasValidManifest(packageDirs[1])
  /\ packageResult = <<[dir |-> 1, file |-> "package.json"]>>


\* The content is name = "payload", with or without a ";" at its end, the
\* payload free of quotes.
IsAssignmentTo(content, name) ==
  LET opening == name \o <<" ", "=", " ", "\"">>
      body == IF content # <<>> /\ content[Len(content)] = ";"
                THEN SubSeq(content, 1, Len(content) - 1)
                ELSE content
  IN /\ StartsWith(body, opening)
     /\ Len(body) > Len(opening)
     /\ body[Len(body)] = "\""
     /\ \A i \in (Len(opening) + 1)..(Len(body) - 1) : body[i] # "\""

RowMatch == FindIndex(SearchReflections, UrlOf(fillRow, "url"))

\* The search job's fill step has run on a row that had no boost and has a
\* reflection.
JobFilledBoost ==
  /\ fillPc \in {"once", "twice"}
  /\ ~fillLegacy
  /\ ~Has(fillRow, "boost")
  /\ RowMatch # 0

FillFollowsSettings ==
  fillPc \in {"once", "twice"} =>
    /\ (Has(fillOnce, "comment") /\ ~Has(fillRow, "comment"))
         => options.searchInComments
    /\ (Has(fillOnce, "document") /\ ~Has(fillRow, "document"))
         => /\ options.searchInDocuments
            /\ RowMatch # 0
            /\ SearchReflections[RowMatch].cls = "Document"
    /\ (fillRow = [url |-> "a.html"] /\ ~options.searchInComments)
         => /\ Pick(fillOnce, {"url", "name", "kind", "boost", "comment",
                               "parent", "document"})
                 = [url |-> "a.html", name |-> "Foo", kind |-> 64,
                    boost |-> 1]

\* Scenario 2, in the search job, and the same row with searchInComments on
\* would have a comment.
FillFollowsSettingsWitness ==
  /\ fillPc = "once"
  /\ ~fillLegacy
  /\ fillRow = [url |-> "a.html"]
  /\ ~options.searchInComments
  /\ fillOnce.name = "Foo"
  /\ fillOnce.kind = 64
  /\ fillOnce.boost = 1
  /\ ~Has(fillOnce, "comment")
  /\ Has(FillStep(fillRow, [options EXCEPT !.searchInComments = TRUE], FALSE),
         "comment")


\* The paths of the nodes of a list from its i-th on, depth first, each node
\* before its children, children in list order.
RECURSIVE PreOrderFrom(_, _, _)
PreOrderFrom(list, prefix, i) ==
  IF i > Len(list) THEN <<>>
  ELSE <<prefix \o <<i>>>>
       \o PreOrderFrom(ChildrenOf(list[i]), prefix \o <<i>>, 1)
       \o PreOrderFrom(list, prefix, i + 1)

\* The fills of nodes, in the order they happened.
NodeVisits == SelectSeq(log, LAMBDA ev : ev.e = "fill")

\* The position in the log of the last fill before position i (0: none).
LastFillBefore(i) ==
  LET fills == {j \in 1..(i - 1) : log[j].e = "fill"}
  IN IF fills = {} THEN 0 ELSE CHOOSE j \in fills : \A k \in fills : k <= j

\* How many events of the kinds lie strictly between positions i and j.
CountBetween(i, j, kinds) ==
  Cardinality({k \in (i + 1)..(j - 1) : log[k].e \in kinds})

\* C17: the navigation job visits every node once, depth first and each node
\* before its children: the nodes are filled in pre-order, children in list
\* order and a subtree wholly before the next sibling; every format callback
\* of a node is called and has returned between the node's fill and the
\* assignment that ends its visit, and the next node is filled only after
\* that assignment.  (The log only grows: what is required of its last event
\* in every state is required of every event.)
DepthFirstPreOrder ==
  job.kind = "navigation" =>
    LET order == PreOrderFrom(navItems, <<>>, 1)
    IN /\ Len(NodeVisits) <= Len(order)
       /\ \A k \in 1..Len(NodeVisits) : NodeVisits[k].at = order[k]
       /\ pc = "done" => Len(NodeVisits) = Len(order)
       /\ \A i \in {Len(log)} \ {0} :
            /\ log[i].e \in {"formatCall", "formatReturn", "formatThrow",
                             "assign"}
                 => /\ LastFillBefore(i) # 0
                    /\ log[i].at = log[LastFillBefore(i)].at
            /\ log[i].e = "assign"
                 => /\ CountBetween(LastFillBefore(i), i, {"formatCall"})
                         = Len(NavigationTasks.format)
                    /\ CountBetween(LastFillBefore(i), i, {"formatReturn"})
                         = Len(NavigationTasks.format)
                    /\ CountBetween(LastFillBefore(i), i, {"assign"}) = 0
            /\ (log[i].e = "fill" /\ LastFillBefore(i) # 0)
                 => log[i - 1].e = "assign"

\* A tree of a node with a child and a second top-level node was walked
\* with two format callbacks registered: node, child, then the sibling.
DepthFirstPreOrderWitness ==
  /\ job.kind = "navigation"
  /\ pc = "done"
  /\ Len(NavigationTasks.format) = 2
  /\ Len(navItems) = 2
  /\ Len(ChildrenOf(navItems[1])) = 1
  /\ Len(NodeVisits) = 3
  /\ NodeVisits[1].at = <<1>>
  /\ NodeVisits[2].at = <<1, 1>>
  /\ NodeVisits[3].at = <<2>>
  /\ Len(SelectSeq(log, LAMBDA ev : ev.e = "formatReturn")) = 6

=============================================================================
